---- MODULE Spec2Model ----
(***************************************************************************)
(* A model of dancer's constraint-aware row synthesis: the reflected       *)
(* schema (mysql.py), the unique-constraint view and the foreign scope     *)
(* (mysql.py), the row synthesizer and the generation driver (fake.py).    *)
(* The database is a map from table name to the list of its rows; SQL      *)
(* queries are modelled by what they return on that map.                   *)
(***************************************************************************)
EXTENDS Integers, Sequences, FiniteSets, TLC

VARIABLES
    schema,      \* name of the reflected database schema
    catalog,     \* Database.tables: the table names in SHOW TABLES order
    num_of_rows, \* FakeTable.num_of_rows of every table
    db,          \* the rows of every table, in insertion order
    pos,         \* generate(): index of the table the for loop is at
    stack,       \* active generate_fake_rows calls, innermost last
    memo,        \* FakeFactory.pre_produces_ref_tables
    nfr,         \* the active new_fake_row call (scope, fields, attempt, seed)
    log,         \* every INSERT issued, in order
    calls,       \* number of new_fake_row invocations per table
    error,       \* the exception that ended the run, or "none"
    gen,         \* ValueFactory probe: the last generator call
    factory      \* FakeFactory.table_definitions as __init__ built them

vars == <<schema, catalog, num_of_rows, db, pos, stack, memo, nfr, log, calls, error, gen,
          factory>>

\* Python None and SQL NULL; every real value is a positive integer.
NULL == 0

\* Largest value a typed generator draws in the driver model.
MaxVal == 2
\* Largest configured num_of_rows.
MaxRows == 2
\* The largest per-row seed generate_fake_rows draws.
RandMax == 2147483647
\* The retry budget the driver passes to new_fake_row.
Retries == 100
\* The deepest nesting of generate_fake_rows calls the interpreter allows;
\* a call beyond it raises RecursionError.
MaxDepth == 6

Vals == 1..MaxVal

\* A Python function object held as a value, such as the lambda that
\* FakeColumn.__call__ returns; no parameter of a statement can be one
FunctionObject == -1

\* The string an override func returns; no typed generator of the driver
\* model draws it
FuncString == MaxVal + 1

\* The seeds the driver model draws: both ends of randint(0, RandMax)
Seeds == {0, RandMax}

(***************************************************************************)
(* The information schema of the modelled databases.                       *)
(***************************************************************************)
\* One row of SHOW FULL COLUMNS; extra is the Extra text split into words.
ColMeta(field, type, size, null, default, extra) ==
    [field |-> field, type |-> type, size |-> size, null |-> null,
     default |-> default, extra |-> extra]

\* One row of SHOW INDEX.
IdxMeta(key_name, non_unique, column_name) ==
    [key_name |-> key_name, non_unique |-> non_unique, column_name |-> column_name]

\* One row of information_schema.key_column_usage with a referenced column.
RefMeta(t, c, rt, rc) ==
    [table_name |-> t, column_name |-> c,
     referenced_table_name |-> rt, referenced_column_name |-> rc]

AutoId == ColMeta("id", "int", <<>>, "NO", "", <<"auto_increment">>)
PrimaryId == IdxMeta("PRIMARY", 0, "id")

SchemaNames == {"chain", "pair", "uniq", "scope", "stamp", "bare", "role", "tree", "over",
                "retry", "hook", "index", "twin"}

SchemaTables(s) ==
    CASE s = "chain" -> {"a", "b", "c"}
      [] s = "pair"  -> {"p", "ch"}
      [] s = "uniq"  -> {"u", "w"}
      [] s = "scope" -> {"pp", "cc"}
      [] s = "stamp" -> {"s"}
      [] s = "bare"  -> {"e"}
      [] s = "role"  -> {"user", "role", "user_role"}
      [] s = "tree"  -> {"t"}
      [] s = "over"  -> {"m", "n"}
      [] s = "retry" -> {"q", "r"}
      [] s = "hook"  -> {"hp", "h"}
      [] s = "cycle" -> {"cx", "cy", "cz"}
      [] s = "index" -> {"ix"}
      [] s = "twin"  -> {"tp", "tw"}

AllTables == UNION {SchemaTables(s) : s \in SchemaNames}

\* SHOW FULL COLUMNS FROM t
ColumnRows(t) ==
    CASE t = "c"  -> <<AutoId, ColMeta("kind", "enum", <<1>>, "NO", "", <<>>)>>
      [] t = "b"  -> <<AutoId, ColMeta("c_id", "int", <<>>, "NO", "", <<>>)>>
      [] t = "a"  -> <<AutoId, ColMeta("b_id", "int", <<>>, "NO", "", <<>>),
                       ColMeta("c_id", "int", <<>>, "YES", "", <<>>),
                       ColMeta("created_at", "timestamp", <<>>, "NO",
                               "CURRENT_TIMESTAMP", <<>>)>>
      [] t = "p"  -> <<ColMeta("k1", "tinyint", <<>>, "NO", "", <<>>),
                       ColMeta("k2", "tinyint", <<>>, "NO", "", <<>>)>>
      [] t = "ch" -> <<AutoId, ColMeta("f1", "tinyint", <<>>, "YES", "", <<>>),
                       ColMeta("f2", "tinyint", <<>>, "NO", "", <<>>),
                       ColMeta("updated_at", "timestamp", <<>>, "YES", "",
                               <<"on", "update", "CURRENT_TIMESTAMP">>)>>
      [] t = "u"  -> <<AutoId, ColMeta("code", "tinyint", <<>>, "NO", "", <<>>)>>
      [] t = "w"  -> <<AutoId, ColMeta("u_id", "int", <<>>, "YES", "", <<>>),
                       ColMeta("kind", "enum", <<1>>, "NO", "", <<>>)>>
      [] t = "pp" -> <<ColMeta("k1", "tinyint", <<>>, "NO", "", <<>>),
                       ColMeta("k2", "tinyint", <<>>, "NO", "", <<>>)>>
      [] t = "cc" -> <<ColMeta("f1", "tinyint", <<>>, "NO", "", <<>>),
                       ColMeta("f2", "tinyint", <<>>, "YES", "", <<>>),
                       ColMeta("f3", "tinyint", <<>>, "YES", "", <<>>)>>
      [] t = "e"  -> <<AutoId>>
      [] t \in {"user", "role"} ->
                     <<AutoId, ColMeta("kind", "enum", <<1>>, "NO", "", <<>>)>>
      [] t = "user_role" ->
                     <<ColMeta("user_id", "int", <<>>, "NO", "", <<>>),
                       ColMeta("role_id", "int", <<>>, "NO", "", <<>>)>>
      [] t = "t"  -> <<AutoId, ColMeta("parent_id", "int", <<>>, "YES", "", <<>>),
                       ColMeta("kind", "enum", <<1>>, "NO", "", <<>>)>>
      [] t = "m"  -> <<AutoId, ColMeta("x", "tinyint", <<>>, "NO", "", <<>>),
                       ColMeta("y", "tinyint", <<>>, "YES", "", <<>>)>>
      [] t = "n"  -> <<AutoId, ColMeta("z", "tinyint", <<>>, "NO", "", <<>>)>>
      [] t = "q"  -> <<ColMeta("k", "tinyint", <<>>, "NO", "", <<>>)>>
      [] t = "hp" -> <<AutoId, ColMeta("kind", "enum", <<1>>, "NO", "", <<>>)>>
      [] t = "cx" -> <<AutoId, ColMeta("z_id", "int", <<>>, "NO", "", <<>>),
                       ColMeta("y_id", "int", <<>>, "YES", "", <<>>)>>
      [] t = "cy" -> <<AutoId, ColMeta("x_id", "int", <<>>, "YES", "", <<>>)>>
      [] t = "cz" -> <<AutoId, ColMeta("kind", "enum", <<1>>, "NO", "", <<>>)>>
      [] t = "tp" -> <<ColMeta("k", "tinyint", <<>>, "NO", "", <<>>)>>
      [] t = "tw" -> <<ColMeta("a", "tinyint", <<>>, "YES", "", <<>>),
                       ColMeta("b", "tinyint", <<>>, "NO", "", <<>>)>>
      [] t = "ix" -> <<AutoId, ColMeta("a", "tinyint", <<>>, "NO", "", <<>>),
                       ColMeta("b", "tinyint", <<>>, "NO", "", <<>>),
                       ColMeta("c", "tinyint", <<>>, "NO", "", <<>>),
                       ColMeta("d", "enum", <<1>>, "NO", "", <<>>),
                       ColMeta("e", "tinyint", <<>>, "NO", "", <<>>)>>
      [] t = "h"  -> <<AutoId, ColMeta("p_id", "int", <<>>, "YES", "", <<>>),
                       ColMeta("v", "tinyint", <<>>, "YES", "", <<>>),
                       ColMeta("j", "json", <<>>, "NO", "", <<>>)>>
      [] t = "r"  -> <<ColMeta("f", "tinyint", <<>>, "NO", "", <<>>),
                       ColMeta("g", "tinyint", <<>>, "YES", "", <<>>),
                       ColMeta("code", "tinyint", <<>>, "NO", "", <<>>)>>
      [] t = "s"  -> <<AutoId, ColMeta("created_at", "timestamp", <<>>, "NO",
                                       "CURRENT_TIMESTAMP", <<>>),
                       ColMeta("kind", "enum", <<1>>, "NO", "", <<>>)>>

\* SHOW INDEX FROM t
IndexRows(t) ==
    CASE t = "c"  -> <<PrimaryId>>
      [] t = "b"  -> <<PrimaryId, IdxMeta("fk_b_c", 1, "c_id")>>
      [] t = "a"  -> <<PrimaryId, IdxMeta("fk_a_b", 1, "b_id"),
                       IdxMeta("fk_a_c", 1, "c_id")>>
      [] t = "p"  -> <<IdxMeta("ix_p", 1, "k1"), IdxMeta("ix_p", 1, "k2")>>
      [] t = "ch" -> <<PrimaryId, IdxMeta("fk_ch_1", 1, "f1"),
                       IdxMeta("fk_ch_2", 1, "f2")>>
      [] t = "u"  -> <<PrimaryId, IdxMeta("uq_code", 0, "code")>>
      [] t = "w"  -> <<PrimaryId, IdxMeta("fk_w_u", 1, "u_id")>>
      [] t = "pp" -> <<IdxMeta("ix_pp", 1, "k1"), IdxMeta("ix_pp", 1, "k2")>>
      [] t = "cc" -> <<IdxMeta("uq_cc", 0, "f1"), IdxMeta("uq_cc", 0, "f2"),
                       IdxMeta("fk_cc_3", 1, "f3")>>
      [] t = "s"  -> <<PrimaryId, IdxMeta("uq_created", 0, "created_at")>>
      [] t = "e"  -> <<PrimaryId>>
      [] t \in {"user", "role", "m", "n"} -> <<PrimaryId>>
      [] t = "user_role" ->
                     <<IdxMeta("uq_user_role", 0, "user_id"),
                       IdxMeta("uq_user_role", 0, "role_id"),
                       IdxMeta("fk_ur_role", 1, "role_id")>>
      [] t = "t"  -> <<PrimaryId, IdxMeta("fk_t_parent", 1, "parent_id")>>
      [] t = "q"  -> <<IdxMeta("ix_q", 1, "k")>>
      [] t = "hp" -> <<PrimaryId>>
      [] t = "cx" -> <<PrimaryId, IdxMeta("fk_cx_z", 1, "z_id"),
                       IdxMeta("fk_cx_y", 1, "y_id")>>
      [] t = "cy" -> <<PrimaryId, IdxMeta("fk_cy_x", 1, "x_id")>>
      [] t = "cz" -> <<PrimaryId>>
      [] t = "tp" -> <<IdxMeta("ix_tp", 1, "k")>>
      [] t = "tw" -> <<IdxMeta("uq_ab", 0, "a"), IdxMeta("uq_ab", 0, "b"),
                       IdxMeta("fk_tw_b", 1, "b")>>
      [] t = "ix" -> <<PrimaryId, IdxMeta("uq_id", 0, "id"),
                       IdxMeta("uq_ab", 0, "a"), IdxMeta("uq_ab", 0, "b"),
                       IdxMeta("uq_b", 0, "b"),
                       IdxMeta("ix_c", 1, "c"), IdxMeta("uq_c", 0, "c"),
                       IdxMeta("uq_e", 0, "e"), IdxMeta("ix_e", 1, "e")>>
      [] t = "h"  -> <<PrimaryId, IdxMeta("fk_h_p", 1, "p_id")>>
      [] t = "r"  -> <<IdxMeta("uq_f", 0, "f"), IdxMeta("uq_g", 0, "g"),
                       IdxMeta("uq_code", 0, "code")>>

\* information_schema.key_column_usage, the rows with a referenced column
KeyColumnUsage ==
    <<RefMeta("b", "c_id", "c", "id"),
      RefMeta("a", "b_id", "b", "id"),
      RefMeta("a", "c_id", "c", "id"),
      RefMeta("ch", "f1", "p", "k1"),
      RefMeta("ch", "f2", "p", "k2"),
      RefMeta("cc", "f1", "pp", "k1"),
      RefMeta("cc", "f2", "pp", "k2"),
      RefMeta("cc", "f3", "pp", "k2"),
      RefMeta("w", "u_id", "u", "id"),
      RefMeta("user_role", "user_id", "user", "id"),
      RefMeta("user_role", "role_id", "role", "id"),
      RefMeta("t", "parent_id", "t", "id"),
      RefMeta("r", "f", "q", "k"),
      RefMeta("r", "g", "q", "k"),
      RefMeta("h", "p_id", "hp", "id"),
      RefMeta("cx", "z_id", "cz", "id"),
      RefMeta("cx", "y_id", "cy", "id"),
      RefMeta("cy", "x_id", "cx", "id"),
      RefMeta("tw", "a", "tp", "k"),
      RefMeta("tw", "b", "tp", "k")>>

\* The rows a table may hold before the run.
SeedRows(t) ==
    CASE t = "p"  -> {<<>>, <<[k1 |-> 1, k2 |-> 2], [k1 |-> 2, k2 |-> 1]>>}
      [] t = "u"  -> {<<>>, <<[id |-> 1, code |-> 1]>>}
      [] t = "pp" -> {<<>>, <<[k1 |-> 1, k2 |-> 2], [k1 |-> 2, k2 |-> 1]>>,
                      <<[k1 |-> 1, k2 |-> 1], [k1 |-> 1, k2 |-> 2]>>}
      [] t \in {"user", "role"} ->
                     {<<[id |-> 1, kind |-> 1]>>,
                      <<[id |-> 1, kind |-> 1], [id |-> 2, kind |-> 1]>>}
      [] t = "q"  -> {<<[k |-> 1], [k |-> 2], [k |-> 3]>>}
      [] t = "r"  -> {<<[f |-> 3, g |-> 3, code |-> 1]>>}
      [] t = "tp" -> {<<[k |-> 1], [k |-> 2], [k |-> 3]>>}
      [] t = "tw" -> {<<>>, <<[a |-> 1, b |-> 1]>>}
      [] OTHER    -> {<<>>}

\* The num_of_rows a table definition may configure (1 is the default).
RowCounts(t) ==
    CASE t \in {"a", "b", "c", "w", "e", "m", "n", "hp", "h", "cx", "cy", "ix"} -> {1}
      [] t = "cz"                   -> {1, 2}
      [] t \in {"user", "role", "q", "tp"} -> {0}
      [] t = "tw"                   -> {1, 2}
      [] t = "r"                    -> {1}
      [] t = "user_role"            -> {1, 2, 4}
      [] t = "t"                    -> {1, 2}
      [] t = "p"                    -> {0, 1}
      [] t = "pp"                   -> {0}
      [] t \in {"ch", "cc"}         -> {0, 1, 2}
      [] t = "u"                    -> {1, MaxRows}
      [] OTHER                      -> 0..MaxRows

(***************************************************************************)
(* Schema reflection (mysql.py, Column and Table).                         *)
(***************************************************************************)
Range(seq) == {seq[i] : i \in 1..Len(seq)}

\* The list seq without its repeated elements, first occurrences kept.
RECURSIVE Dedup(_)
Dedup(seq) ==
    IF seq = <<>> THEN <<>>
    ELSE LET init == Dedup(SubSeq(seq, 1, Len(seq) - 1))
             last == seq[Len(seq)]
         IN  IF last \in Range(init) THEN init ELSE Append(init, last)

\* Table.fields
fields(t) == [i \in 1..Len(ColumnRows(t)) |-> ColumnRows(t)[i].field]

Meta(t, c) == CHOOSE m \in Range(ColumnRows(t)) : m.field = c

\* Column.auto_increment
auto_increment(m) == "auto_increment" \in Range(m.extra)

\* Column.nullable
nullable(m) == m.null = "YES"

\* Column.on_update: Extra with every 'on update ' removed
RECURSIVE on_update_words(_)
on_update_words(extra) ==
    IF extra = <<>> THEN <<>>
    ELSE IF Len(extra) >= 2 /\ extra[1] = "on" /\ extra[2] = "update"
         THEN on_update_words(SubSeq(extra, 3, Len(extra)))
         ELSE <<extra[1]>> \o on_update_words(Tail(extra))

on_update(m) == on_update_words(m.extra)

\* Column.fillable
fillable(m) ==
    /\ ~auto_increment(m)
    /\ m.default # "CURRENT_TIMESTAMP"
    /\ on_update(m) # <<"CURRENT_TIMESTAMP">>

\* Table.fillable_fields (and the names of Table.fillable_columns)
fillable_fields(t) == SelectSeq(fields(t), LAMBDA c : fillable(Meta(t, c)))

\* Table.fetch_referenced_to and Column.referenced_to: <<table, column>> or <<>>
referenced_to(t, c) ==
    LET rows == SelectSeq(KeyColumnUsage,
                          LAMBDA r : r.table_name = t /\ r.column_name = c)
    IN  IF rows = <<>> THEN <<>>
        ELSE <<rows[1].referenced_table_name, rows[1].referenced_column_name>>

\* Table.references_to(columns): the referenced columns, one per FK column
references_to(t, columns) ==
    LET fk == SelectSeq(columns, LAMBDA c : referenced_to(t, c) # <<>>)
    IN  [i \in 1..Len(fk) |-> referenced_to(t, fk[i])]

\* Table.references_group_by_table().keys(): the referenced tables, in order
references_group_by_table(t) ==
    LET refs == references_to(t, fields(t))
    IN  Dedup([i \in 1..Len(refs) |-> refs[i][1]])

\* Mutant of fetch_index: the last SHOW INDEX row of the column
fetch_index_last(t, c) ==
    LET rows == SelectSeq(IndexRows(t), LAMBDA r : r.column_name = c)
    IN  IF rows = <<>> THEN <<>> ELSE <<rows[Len(rows)]>>

\* Table.fetch_index: the first SHOW INDEX row of the column, or <<>>
fetch_index(t, c) ==
    LET rows == SelectSeq(IndexRows(t), LAMBDA r : r.column_name = c)
    IN  IF rows = <<>> THEN <<>> ELSE <<rows[1]>>

\* Whether Table.__init__ appends column c to unique_indexes[key]
InUniqueIndex(t, c, key) ==
    LET ix == fetch_index(t, c)
    IN  /\ ix # <<>>
        /\ ix[1].key_name # "PRIMARY"
        /\ ix[1].non_unique = 0
        /\ ix[1].key_name = key

\* Table.unique_indexes: the keys in insertion order ...
unique_index_keys(t) ==
    LET named == SelectSeq(fields(t),
                           LAMBDA c : \E k \in {r.key_name : r \in Range(IndexRows(t))} :
                                          InUniqueIndex(t, c, k))
    IN  Dedup([i \in 1..Len(named) |-> fetch_index(t, named[i])[1].key_name])

\* ... and the columns of each key, in column order
unique_indexes(t, key) == SelectSeq(fields(t), LAMBDA c : InUniqueIndex(t, c, key))

\* Table.__init__, the loop over the columns: a column whose first index
\* row is PRIMARY is passed over, one whose first index row is unique is
\* appended to the list of that key, which is created when missing
RECURSIVE TableInitLoop(_, _, _)
TableInitLoop(t, cols, st) ==
    IF cols = <<>> THEN st
    ELSE LET index_meta == fetch_index(t, Head(cols))
             key_name   == index_meta[1].key_name
         IN  IF index_meta = <<>> THEN TableInitLoop(t, Tail(cols), st)
             ELSE IF key_name = "PRIMARY" THEN TableInitLoop(t, Tail(cols), st)
             ELSE IF index_meta[1].non_unique # 0 THEN TableInitLoop(t, Tail(cols), st)
             ELSE TableInitLoop(t, Tail(cols),
                    [keys |-> IF key_name \in Range(st.keys) THEN st.keys
                              ELSE Append(st.keys, key_name),
                     unique_indexes |->
                        [k \in DOMAIN st.unique_indexes \cup {key_name} |->
                            IF k = key_name
                            THEN Append(IF k \in DOMAIN st.unique_indexes
                                        THEN st.unique_indexes[k] ELSE <<>>,
                                        Head(cols))
                            ELSE st.unique_indexes[k]]])

\* Table.unique_indexes after Table.__init__: the keys in insertion order
\* and the column list of each key
TableInit(t) == TableInitLoop(t, fields(t), [keys |-> <<>>, unique_indexes |-> <<>>])

\* TableConstraints.columns: the columns of all the unique indexes
constraint_columns(t) ==
    {c \in Range(fields(t)) : \E i \in 1..Len(unique_index_keys(t)) :
                                   InUniqueIndex(t, c, unique_index_keys(t)[i])}

(***************************************************************************)
(* The database as the queries see it.                                     *)
(***************************************************************************)
\* SQL comparison c = v in a WHERE clause: never true on NULL
SqlEq(x, y) == x # NULL /\ y # NULL /\ x = y

\* SQL comparison c <> v in a WHERE clause: never true on NULL
SqlNe(x, y) == x # NULL /\ y # NULL /\ x # y

MaxOf(S) == IF S = {} THEN 0 ELSE CHOOSE x \in S : \A y \in S : y <= x

\* The row the server stores for an INSERT that lists the columns of row:
\* the next id for an auto-increment column, the clock for a
\* CURRENT_TIMESTAMP column, NULL for any other unlisted column.
StoredRow(t, rows, val) ==
    [c \in Range(fields(t)) |->
        IF c \in DOMAIN val THEN val[c]
        ELSE IF auto_increment(Meta(t, c)) THEN MaxOf({rows[i][c] : i \in 1..Len(rows)}) + 1
        ELSE IF fillable(Meta(t, c)) THEN NULL
        ELSE 1]

\* Whether the INSERT is executed: every listed name is a column of the
\* table and has its parameter, no NOT NULL column is given NULL, and every
\* parameter is a value the driver can bind
ServerAccepts(t, columns, val) ==
    /\ Range(columns) \subseteq Range(fields(t))
    /\ Range(columns) = DOMAIN val
    /\ \A c \in DOMAIN val : val[c] = NULL => nullable(Meta(t, c))
    /\ \A c \in DOMAIN val : val[c] # FunctionObject

(***************************************************************************)
(* TableUniqueConstraints (mysql.py).                                      *)
(***************************************************************************)
\* SELECT COUNT(*) FROM t WHERE c1 = :c1 AND ... for the columns of one index
CountEqual(rows, columns, val) ==
    Cardinality({i \in 1..Len(rows) :
                    \A c \in Range(columns) : SqlEq(rows[i][c], val[c])})

\* Mutant of test_from: one existing equal row is let through
RECURSIVE test_from_two(_, _, _, _)
test_from_two(t, rows, val, keys) ==
    IF keys = <<>> THEN "true"
    ELSE LET columns == unique_indexes(t, Head(keys))
         IN  IF \E c \in Range(columns) : c \notin DOMAIN val THEN "KeyError"
             ELSE IF CountEqual(rows, columns, val) > 1 THEN "false"
             ELSE test_from_two(t, rows, val, Tail(keys))

\* Mutant of test_from: the verdict is returned after the first index
test_from_first(t, rows, val, keys) ==
    IF keys = <<>> THEN "true"
    ELSE LET columns == unique_indexes(t, Head(keys))
         IN  IF \E c \in Range(columns) : c \notin DOMAIN val THEN "KeyError"
             ELSE IF CountEqual(rows, columns, val) > 0 THEN "false"
             ELSE "true"

\* TableUniqueConstraints.test over the indexes keys[i..]:
\* "KeyError" when the row has no entry for a column of the index at hand
RECURSIVE test_from(_, _, _, _)
test_from(t, rows, val, keys) ==
    IF keys = <<>> THEN "true"
    ELSE LET columns == unique_indexes(t, Head(keys))
         IN  IF \E c \in Range(columns) : c \notin DOMAIN val THEN "KeyError"
             ELSE IF CountEqual(rows, columns, val) > 0 THEN "false"
             ELSE test_from(t, rows, val, Tail(keys))

test(t, rows, val) == test_from(t, rows, val, unique_index_keys(t))

\* TableUniqueConstraints.fetch_unique_rows: SELECT DISTINCT columns FROM t
fetch_unique_rows(rows, columns) ==
    {[c \in Range(columns) |-> rows[i][c]] : i \in 1..Len(rows)}

\* The FK columns among columns, in order
ForeignColumns(t, columns) == SelectSeq(columns, LAMBDA c : referenced_to(t, c) # <<>>)

\* Mutant of _where_foreign_values_not_in: the clauses are joined with OR
where_foreign_values_not_in_or(t, d, columns, pick) ==
    \/ fetch_unique_rows(d[t], columns) = {}
    \/ \E e \in fetch_unique_rows(d[t], columns) :
          \A c \in Range(ForeignColumns(t, columns)) :
              SqlNe(pick[referenced_to(t, c)[1]][referenced_to(t, c)[2]], e[c])

\* _where_foreign_values_not_in, evaluated on one row of the FROM product:
\* pick[rt] is the row of referenced table rt. One clause per existing child
\* tuple, (p1 <> :v1 AND p2 <> :v2 ...), the clauses joined with AND.
where_foreign_values_not_in(t, d, columns, pick) ==
    \A e \in fetch_unique_rows(d[t], columns) :
        \A c \in Range(ForeignColumns(t, columns)) :
            SqlNe(pick[referenced_to(t, c)[1]][referenced_to(t, c)[2]], e[c])

\* The rows of FROM rt1, rt2, ...: one row of each referenced table
FromProduct(d, tables) ==
    LET longest == MaxOf({Len(d[rt]) : rt \in tables})
        picks   == {f \in [tables -> 1..longest] : \A rt \in tables : f[rt] <= Len(d[rt])}
    IN  {[rt \in tables |-> d[rt][f[rt]]] : f \in picks}

\* Mutant of fetch_available_foreign_values: every column is keyed to the
\* value of the last referenced column of the SELECT
fetch_available_foreign_values_last(t, d, columns) ==
    LET fk     == ForeignColumns(t, columns)
        tables == {referenced_to(t, c)[1] : c \in Range(fk)}
        last   == referenced_to(t, fk[Len(fk)])
    IN  IF fk = <<>> THEN {}
        ELSE {[c \in Range(fk) |-> pick[last[1]][last[2]]] :
                 pick \in {q \in FromProduct(d, tables) :
                              where_foreign_values_not_in(t, d, columns, q)}}

\* Mutant of fetch_available_foreign_values: the referenced table is joined
\* once per referencing column, each column reads its own row
fetch_available_foreign_values_per_column(t, d, columns) ==
    LET fk     == ForeignColumns(t, columns)
        tables == {referenced_to(t, c)[1] : c \in Range(fk)}
        picks  == {q \in FromProduct(d, tables) :
                      where_foreign_values_not_in(t, d, columns, q)}
    IN  IF fk = <<>> THEN {}
        ELSE {[c \in Range(fk) |-> of[c][referenced_to(t, c)[1]][referenced_to(t, c)[2]]] :
                 of \in [Range(fk) -> picks]}

\* TableUniqueConstraints.fetch_available_foreign_values: the candidate
\* tuples of one unique index, keyed by the child's column names
fetch_available_foreign_values(t, d, columns) ==
    LET fk     == ForeignColumns(t, columns)
        tables == {referenced_to(t, c)[1] : c \in Range(fk)}
    IN  IF fk = <<>> THEN {}
        ELSE {[c \in Range(fk) |-> pick[referenced_to(t, c)[1]][referenced_to(t, c)[2]]] :
                 pick \in {q \in FromProduct(d, tables) :
                              where_foreign_values_not_in(t, d, columns, q)}}

\* TableUniqueConstraints.fetch_available_foreign_rows_set
fetch_available_foreign_rows_set(t, d) ==
    [key \in Range(unique_index_keys(t)) |->
        fetch_available_foreign_values(t, d, unique_indexes(t, key))]

(***************************************************************************)
(* UniqueForeignScope (mysql.py).                                          *)
(***************************************************************************)
\* UniqueForeignScope.get_column_values
get_column_values(rows_set, c) ==
    {row[c] : row \in {r \in UNION {rows_set[k] : k \in DOMAIN rows_set} : c \in DOMAIN r}}

\* Mutant of scope_column_value: a bucket left without a row loses its key
scope_column_value_nonempty(rows_set, c, value) ==
    LET scoped == [k \in DOMAIN rows_set |->
                      {row \in rows_set[k] : c \in DOMAIN row /\ row[c] = value}]
    IN  [k \in {j \in DOMAIN rows_set : scoped[j] # {}} |-> scoped[k]]

\* Mutant of scope_column_value: the scope is not narrowed
scope_column_value_keep(rows_set, c, value) == rows_set

\* UniqueForeignScope.scope_column_value
scope_column_value(rows_set, c, value) ==
    [k \in DOMAIN rows_set |->
        {row \in rows_set[k] : c \in DOMAIN row /\ row[c] = value}]

\* UniqueForeignScope.random_scope_column: every <<value, rows_set after>>
random_scope_column(rows_set, c) ==
    LET values == get_column_values(rows_set, c)
    IN  IF values = {} THEN {[value |-> NULL, scope |-> rows_set]}
        ELSE {[value |-> v,
               scope |-> IF v # NULL THEN scope_column_value(rows_set, c, v)
                         ELSE rows_set] : v \in values}

\* Table.fetch_random_row: the first row of SELECT * FROM rt ORDER BY
\* RAND(seed), a function of the seed and of the table's rows; <<>> if none
fetch_random_row(d, rt, seed) ==
    IF d[rt] = <<>> THEN <<>> ELSE <<d[rt][(seed % Len(d[rt])) + 1]>>

(***************************************************************************)
(* FakeFactory.__init__ (fake.py): the table definitions.                  *)
(* table_definitions is a list of [table, columns] in dict order, columns  *)
(* a list of [column, def] in dict order.                                  *)
(***************************************************************************)
\* A column_def: None, or a scalar
NoneDef == [kind |-> "None"]
ScalarDef(v) == [kind |-> "scalar", value |-> v]
\* A callable column definition: a func that returns a callable giving v ...
FactoryDef(v) == [kind |-> "callable", returns |-> "callable", value |-> v]
\* ... or a func that returns a string
StrDef == [kind |-> "callable", returns |-> "str", value |-> FuncString]

\* The factory built from no table definition
NoDefinitions ==
    [ready |-> TRUE, table_definitions |-> <<>>, columns |-> <<>>,
     column_definition |-> NoneDef]

\* Database.__getitem__: the table of that name, or ColumnNotFound raised
DatabaseGetItem(tables, table_name) ==
    IF table_name \in tables THEN [raised |-> "none", table |-> table_name]
    ELSE [raised |-> "ColumnNotFound"]

\* Mutant of TableGetItem: an unknown name gives a column all the same
TableGetItem_placeholder(t, column_name) == [raised |-> "none", column |-> column_name]

\* Table.__getitem__: the column of that name, or ColumnNotFound raised
TableGetItem(t, column_name) ==
    IF column_name \in Range(fields(t)) THEN [raised |-> "none", column |-> column_name]
    ELSE [raised |-> "ColumnNotFound"]

\* __init__, the loop over the columns of one table definition. st holds
\* the FakeColumns built so far (by <<table, column>>), the local variable
\* column_definition and the exception raised
RECURSIVE InitColumns(_, _, _)
InitColumns(t, cols, st) ==
    IF cols = <<>> \/ st.error # "none" THEN st
    ELSE LET name  == Head(cols).column
             def   == Head(cols).def
             func  == CASE def.kind = "scalar"   -> "constant"
                        [] def.kind = "callable" -> def.returns
                        [] OTHER                 -> "None"
             value == IF def.kind = "callable" THEN def.value ELSE NULL
             bound == [st EXCEPT !.column_definition = def]
         IN  IF TableGetItem(t, name).raised # "none"
             THEN [bound EXCEPT !.error = TableGetItem(t, name).raised]
             ELSE InitColumns(t, Tail(cols),
                     [bound EXCEPT !.columns =
                         [k \in DOMAIN @ \cup {<<t, name>>} |->
                             IF k = <<t, name>> THEN [func |-> func, value |-> value]
                             ELSE @[k]]])

\* __init__, the loop over table_definitions: self.database[table_name],
\* then the columns
RECURSIVE InitTables(_, _, _)
InitTables(tables, defs, st) ==
    IF defs = <<>> \/ st.error # "none" THEN st
    ELSE IF DatabaseGetItem(tables, Head(defs).table).raised # "none"
    THEN [st EXCEPT !.error = DatabaseGetItem(tables, Head(defs).table).raised]
    ELSE InitTables(tables, Tail(defs),
                    InitColumns(Head(defs).table, Head(defs).columns, st))

\* The inner lambda of a scalar override, called: it returns what the
\* variable column_definition of __init__ holds at the time of the call
CallConstant ==
    CASE factory.column_definition.kind = "scalar"   -> factory.column_definition.value
      [] factory.column_definition.kind = "callable" -> FunctionObject
      [] OTHER                                       -> NULL

(***************************************************************************)
(* FakeRow and FakeTable.new_fake_row (fake.py).                           *)
(***************************************************************************)
\* FakeRow.fields, an insertion-ordered dict: its keys and its values
EmptyRow == [keys |-> <<>>, val |-> [c \in {} |-> NULL]]

\* FakeRow.__setitem__
SetItem(row, c, v) ==
    [keys |-> IF c \in Range(row.keys) THEN row.keys ELSE Append(row.keys, c),
     val  |-> [x \in DOMAIN row.val \cup {c} |-> IF x = c THEN v ELSE row.val[x]]]

\* FakeRow.insert_query: the names between the backquotes of
\* (`{"`, `".join(table.fillable_fields())}`), one empty name when there is
\* no fillable field, and the named parameters of VALUES
insert_query(t, row) ==
    [table   |-> t,
     columns |-> IF fillable_fields(t) = <<>> THEN <<"">> ELSE fillable_fields(t),
     params  |-> row.keys]

\* The column types FakeColumn has a generator method for
GeneratorTypes ==
    {"tinyint", "smallint", "mediumint", "int", "bigint", "char", "varchar",
     "text", "longtext", "float", "decimal", "enum", "set", "date", "datetime",
     "timestamp"}

\* new_fake_row, the FakeColumn of column c: the one table_definitions
\* configured, or a new one without func
FakeColumnOf(t, c) ==
    IF <<t, c>> \in DOMAIN factory.columns THEN factory.columns[<<t, c>>]
    ELSE [func |-> "None", value |-> NULL]

\* Mutant of fake_column_raises: the generator of the type is looked up
\* before the func is
fake_column_raises_with_func(t, c) == Meta(t, c).type \notin GeneratorTypes

\* FakeColumn.__call__ without func on a type that has no generator method:
\* getattr raises AttributeError
fake_column_raises(t, c) ==
    FakeColumnOf(t, c).func = "None" /\ Meta(t, c).type \notin GeneratorTypes

\* FakeColumn.__call__ of the column's FakeColumn: with a func, what the
\* func gives (a func that returns a string gives a lambda); with none, the
\* values the generator of the column type draws (enum: a declared literal;
\* integers: a sample 1..MaxVal)
fake_column(t, c) ==
    CASE FakeColumnOf(t, c).func = "constant" -> {CallConstant}
      [] FakeColumnOf(t, c).func = "callable" -> {FakeColumnOf(t, c).value}
      [] FakeColumnOf(t, c).func = "str"      -> {FunctionObject}
      [] OTHER -> IF Meta(t, c).type \notin GeneratorTypes THEN {}
                  ELSE IF Meta(t, c).type = "enum" THEN Range(Meta(t, c).size)
                  ELSE Vals

\* Mutant of SeedFor: the seed is not the same for every column of the row
SeedFor_redrawn(c, seed) == IF c = "f1" THEN seed ELSE RandMax - seed

\* The seed new_fake_row hands to fetch_random_row for column c
SeedFor(c, seed) == seed

\* new_fake_row, the FK branch of one column: every [value, scope] it may give
ForeignValue(t, d, c, scope, seed) ==
    IF c \notin constraint_columns(t)
    THEN LET ref_fake_row == fetch_random_row(d, referenced_to(t, c)[1], SeedFor(c, seed))
         IN  {[value |-> IF ref_fake_row = <<>> THEN NULL
                         ELSE ref_fake_row[1][referenced_to(t, c)[2]],
               scope |-> scope]}
    ELSE random_scope_column(scope, c)

\* Mutant of ColumnOutcomes: a configured func is asked before the FK branch
ColumnOutcomes_func_first(t, d, c, scope, seed) ==
    (IF nullable(Meta(t, c))
     THEN {[value |-> NULL, scope |-> scope, source |-> "null", raised |-> FALSE]}
     ELSE {})
    \cup (IF FakeColumnOf(t, c).func # "None"
          THEN {[value |-> v, scope |-> scope, source |-> "override",
                 raised |-> FALSE] : v \in fake_column(t, c)}
          ELSE IF referenced_to(t, c) # <<>>
          THEN {[value |-> o.value, scope |-> o.scope, source |-> "foreign",
                 raised |-> FALSE] : o \in ForeignValue(t, d, c, scope, seed)}
          ELSE IF fake_column_raises(t, c)
          THEN {[value |-> NULL, scope |-> scope, source |-> "type", raised |-> TRUE]}
          ELSE {[value |-> v, scope |-> scope, source |-> "type",
                 raised |-> FALSE] : v \in fake_column(t, c)})

\* new_fake_row, one column, every outcome with the branch it came from:
\* NULL on a successful nullable_ratio draw of a nullable column, else the
\* FK branch, else the FakeColumn called (the configured func, or the
\* generator of the type, which raises for a type without generator).
\* FakeTable has no attribute named after a column type, so the hasattr
\* branch is never taken.
ColumnOutcomes(t, d, c, scope, seed) ==
    (IF nullable(Meta(t, c))
     THEN {[value |-> NULL, scope |-> scope, source |-> "null", raised |-> FALSE]}
     ELSE {})
    \cup (IF referenced_to(t, c) # <<>>
          THEN {[value |-> o.value, scope |-> o.scope, source |-> "foreign",
                 raised |-> FALSE] : o \in ForeignValue(t, d, c, scope, seed)}
          ELSE IF fake_column_raises(t, c)
          THEN {[value |-> NULL, scope |-> scope, source |-> "type", raised |-> TRUE]}
          ELSE {[value |-> v, scope |-> scope,
                 source |-> IF FakeColumnOf(t, c).func = "None" THEN "type"
                            ELSE "override",
                 raised |-> FALSE] : v \in fake_column(t, c)})

\* new_fake_row, one column: every [value, scope] it may give
ColumnValue(t, d, c, scope, seed) ==
    {[value |-> o.value, scope |-> o.scope] :
        o \in {x \in ColumnOutcomes(t, d, c, scope, seed) : ~x.raised}}

\* new_fake_row, the column loop of one attempt over columns cols: every
\* [row, scope] it may end with, raised when a column's generator raised
RECURSIVE FillColumns(_, _, _, _, _, _)
FillColumns(t, d, cols, row, scope, seed) ==
    IF cols = <<>> THEN {[row |-> row, scope |-> scope, raised |-> FALSE]}
    ELSE UNION {FillColumns(t, d, Tail(cols), SetItem(row, Head(cols), o.value),
                            o.scope, seed) :
                   o \in ColumnValue(t, d, Head(cols), scope, seed)}
         \cup {[row |-> row, scope |-> o.scope, raised |-> TRUE] :
                  o \in {x \in ColumnOutcomes(t, d, Head(cols), scope, seed) : x.raised}}

\* The columns one attempt of new_fake_row fills
AttemptColumns(t) == fillable_fields(t)

Idle == [active |-> FALSE]

(***************************************************************************)
(* FakeFactory.generate and generate_fake_rows (fake.py).                  *)
(***************************************************************************)
Top == stack[Len(stack)]

Frame(t) == [table |-> t, pidx |-> 1, fake_rows |-> <<>>]

\* Mutant of ParentLoop: the referenced tables are not generated first
ParentLoop_none(t) == <<>>

\* The tables generate_fake_rows visits before it fills table t
ParentLoop(t) == references_group_by_table(t)

SetTop(f) == [stack EXCEPT ![Len(stack)] = f]

NoRow == [nil |-> TRUE]

Running == error = "none"

\* generate(): the for loop calls generate_fake_rows on the next table;
\* a memoized table returns at once
Generate ==
    /\ factory.ready
    /\ Running /\ stack = <<>> /\ pos <= Len(catalog)
    /\ IF memo[catalog[pos]].set
       THEN pos' = pos + 1 /\ stack' = stack
       ELSE pos' = pos /\ stack' = <<Frame(catalog[pos])>>
    /\ UNCHANGED <<schema, catalog, num_of_rows, db, memo, nfr, log, calls, error, gen, factory>>

\* Mutant of VisitParent: a referenced table is generated again although it
\* is memoized
VisitParent_again ==
    /\ Running /\ stack # <<>> /\ Top.pidx <= Len(ParentLoop(Top.table))
    /\ LET p == ParentLoop(Top.table)[Top.pidx]
       IN  IF p = Top.table
           THEN stack' = SetTop([Top EXCEPT !.pidx = @ + 1])
           ELSE Len(stack) < MaxDepth /\ stack' = Append(stack, Frame(p))
    /\ UNCHANGED <<schema, catalog, num_of_rows, db, pos, memo, nfr, log, calls, error, gen, factory>>

\* Mutant of VisitParent: a referenced table whose generation is under way
\* is skipped
VisitParent_acyclic ==
    /\ Running /\ stack # <<>> /\ Top.pidx <= Len(ParentLoop(Top.table))
    /\ LET p == ParentLoop(Top.table)[Top.pidx]
       IN  IF p = Top.table \/ memo[p].set
              \/ \E i \in 1..Len(stack) : stack[i].table = p
           THEN stack' = SetTop([Top EXCEPT !.pidx = @ + 1])
           ELSE Len(stack) < MaxDepth /\ stack' = Append(stack, Frame(p))
    /\ UNCHANGED <<schema, catalog, num_of_rows, db, pos, memo, nfr, log, calls, error, gen, factory>>

\* generate_fake_rows, one iteration of the loop over the referenced tables:
\* a self-reference is skipped, a memoized table is returned and stored
\* again, any other table is generated by a recursive call
VisitParent ==
    /\ Running /\ stack # <<>> /\ Top.pidx <= Len(ParentLoop(Top.table))
    /\ LET p == ParentLoop(Top.table)[Top.pidx]
       IN  IF p = Top.table \/ memo[p].set
           THEN stack' = SetTop([Top EXCEPT !.pidx = @ + 1])
           ELSE Len(stack) < MaxDepth /\ stack' = Append(stack, Frame(p))
    /\ UNCHANGED <<schema, catalog, num_of_rows, db, pos, memo, nfr, log, calls, error, gen, factory>>

\* generate_fake_rows, the recursive call that exceeds the interpreter's
\* recursion limit: RecursionError leaves every call under way
RecursionOverflow ==
    /\ Running /\ stack # <<>> /\ Top.pidx <= Len(ParentLoop(Top.table))
    /\ LET p == ParentLoop(Top.table)[Top.pidx]
       IN  p # Top.table /\ ~memo[p].set
    /\ Len(stack) >= MaxDepth
    /\ error' = "RecursionError"
    /\ UNCHANGED <<schema, catalog, num_of_rows, db, pos, stack, memo, nfr, log, calls, gen, factory>>

\* generate_fake_rows, one iteration of the row loop up to the call:
\* draw the seed; new_fake_row builds the constraints and the scope
NewFakeRow ==
    /\ Running /\ stack # <<>> /\ ~nfr.active
    /\ Top.pidx > Len(ParentLoop(Top.table))
    /\ Len(Top.fake_rows) < num_of_rows[Top.table]
    /\ \E random_row_seed \in Seeds :
          nfr' = [active |-> TRUE, table |-> Top.table, seed |-> random_row_seed,
                  attempt |-> 0, row |-> EmptyRow,
                  scope |-> fetch_available_foreign_rows_set(Top.table, db)]
    /\ calls' = [calls EXCEPT ![Top.table] = @ + 1]
    /\ UNCHANGED <<schema, catalog, num_of_rows, db, pos, stack, memo, log, error, gen, factory>>

\* The outcomes of the column loop of the attempt at hand: the loop ran
\* to its end ...
Filled ==
    {o \in FillColumns(nfr.table, db, AttemptColumns(nfr.table), nfr.row, nfr.scope,
                       nfr.seed) : ~o.raised}

\* ... or a column's generator raised
Raising ==
    {o \in FillColumns(nfr.table, db, AttemptColumns(nfr.table), nfr.row, nfr.scope,
                       nfr.seed) : o.raised}

\* new_fake_row, an attempt whose test passes: the INSERT is issued and the
\* row returned; the server may reject the statement
AttemptInsert ==
    /\ Running /\ nfr.active /\ nfr.attempt < Retries
    /\ \E o \in Filled :
          /\ test(nfr.table, db[nfr.table], o.row.val) = "true"
          /\ log' = Append(log, [q |-> insert_query(nfr.table, o.row), val |-> o.row.val])
          /\ IF ServerAccepts(nfr.table, insert_query(nfr.table, o.row).columns, o.row.val)
             THEN /\ db' = [db EXCEPT ![nfr.table] =
                               Append(@, StoredRow(nfr.table, @, o.row.val))]
                  /\ stack' = SetTop([Top EXCEPT !.fake_rows =
                               Append(@, [nil |-> FALSE, fields |-> o.row.val])])
                  /\ error' = error
             ELSE /\ error' = "DatabaseError"
                  /\ UNCHANGED <<db, stack>>
    /\ nfr' = Idle
    /\ UNCHANGED <<schema, catalog, num_of_rows, pos, memo, calls, gen, factory>>

\* new_fake_row, an attempt whose test fails with attempts left
AttemptRetry ==
    /\ Running /\ nfr.active /\ nfr.attempt + 1 < Retries
    /\ \E o \in Filled :
          /\ test(nfr.table, db[nfr.table], o.row.val) = "false"
          /\ nfr' = [nfr EXCEPT !.attempt = @ + 1, !.row = o.row, !.scope = o.scope]
    /\ UNCHANGED <<schema, catalog, num_of_rows, db, pos, stack, memo, log, calls, error, gen, factory>>

\* Mutant of AttemptExhaust: running out of attempts raises
AttemptExhaust_raise ==
    /\ Running /\ nfr.active /\ nfr.attempt + 1 = Retries
    /\ \E o \in Filled : test(nfr.table, db[nfr.table], o.row.val) = "false"
    /\ nfr' = Idle
    /\ error' = "RetryLimit"
    /\ UNCHANGED <<schema, catalog, num_of_rows, db, pos, stack, memo, log, calls, gen, factory>>

\* new_fake_row, the last attempt fails its test: None is returned
AttemptExhaust ==
    /\ Running /\ nfr.active /\ nfr.attempt + 1 = Retries
    /\ \E o \in Filled : test(nfr.table, db[nfr.table], o.row.val) = "false"
    /\ nfr' = Idle
    /\ stack' = SetTop([Top EXCEPT !.fake_rows = Append(@, NoRow)])
    /\ UNCHANGED <<schema, catalog, num_of_rows, db, pos, memo, log, calls, error, gen, factory>>

\* new_fake_row, test meets a unique-index column the row has no entry for
AttemptKeyError ==
    /\ Running /\ nfr.active /\ nfr.attempt < Retries
    /\ \E o \in Filled : test(nfr.table, db[nfr.table], o.row.val) = "KeyError"
    /\ error' = "KeyError"
    /\ nfr' = Idle
    /\ UNCHANGED <<schema, catalog, num_of_rows, db, pos, stack, memo, log, calls, gen, factory>>

\* new_fake_row, a column of a type without generator and without func:
\* AttributeError leaves new_fake_row, generate_fake_rows and generate()
AttemptRaise ==
    /\ Running /\ nfr.active /\ nfr.attempt < Retries
    /\ Raising # {}
    /\ error' = "AttributeError"
    /\ nfr' = Idle
    /\ UNCHANGED <<schema, catalog, num_of_rows, db, pos, stack, memo, log, calls, gen, factory>>

\* generate_fake_rows returns fake_rows: the caller memoizes them under the
\* table, generate() moves on to the next table
ReturnRows ==
    /\ Running /\ stack # <<>> /\ ~nfr.active
    /\ Top.pidx > Len(ParentLoop(Top.table))
    /\ Len(Top.fake_rows) = num_of_rows[Top.table]
    /\ IF Len(stack) > 1
       THEN /\ memo' = [memo EXCEPT ![Top.table] = [set |-> TRUE, rows |-> Top.fake_rows]]
            /\ stack' = [SubSeq(stack, 1, Len(stack) - 1) EXCEPT
                            ![Len(stack) - 1].pidx = @ + 1]
            /\ pos' = pos
       ELSE /\ memo' = memo
            /\ stack' = <<>>
            /\ pos' = pos + 1
    /\ UNCHANGED <<schema, catalog, num_of_rows, db, nfr, log, calls, error, gen, factory>>

Done == Running /\ stack = <<>> /\ pos > Len(catalog)

(***************************************************************************)
(* The specification of the generation driver.                             *)
(***************************************************************************)
Perms(S) ==
    {q \in [1..Cardinality(S) -> S] : \A i, j \in 1..Cardinality(S) : i # j => q[i] # q[j]}

NoGen == [type |-> "none"]

InitOn(names) ==
    /\ schema \in names
    /\ catalog \in Perms(SchemaTables(schema))
    /\ num_of_rows \in {f \in [SchemaTables(schema) -> UNION {RowCounts(t) : t \in SchemaTables(schema)}] :
                           \A t \in SchemaTables(schema) : f[t] \in RowCounts(t)}
    /\ db \in {f \in [SchemaTables(schema) -> UNION {SeedRows(t) : t \in SchemaTables(schema)}] :
                  \A t \in SchemaTables(schema) : f[t] \in SeedRows(t)}
    /\ pos = 1
    /\ stack = <<>>
    /\ memo = [t \in SchemaTables(schema) |-> [set |-> FALSE, rows |-> <<>>]]
    /\ nfr = Idle
    /\ log = <<>>
    /\ calls = [t \in SchemaTables(schema) |-> 0]
    /\ error = "none"
    /\ gen = NoGen

Init == InitOn(SchemaNames) /\ factory = NoDefinitions

Next ==
    \/ Generate
    \/ VisitParent
    \/ NewFakeRow
    \/ AttemptInsert
    \/ AttemptRetry
    \/ AttemptExhaust
    \/ AttemptKeyError
    \/ AttemptRaise
    \/ ReturnRows

Spec == Init /\ [][Next]_vars

\* generate() is one thread of control: a step that can be taken is taken
FairSpec == Spec /\ WF_vars(Next)

(***************************************************************************)
(* The specification of the factory's construction followed by the run,    *)
(* on schema "over" with every small table_definitions.                    *)
(***************************************************************************)
\* Most column definitions one table_definitions holds in all.
MaxDefs == 2

\* The scalars a column definition may give
Scalars == {1, 2}

SeqsUpTo(S, n) == UNION {[1..k -> S] : k \in 0..n}

\* The column names a definition of table t may use: its fillable columns
\* and a name the table does not have; none for a table not in the database
DefinableColumns(t) ==
    IF t \in SchemaTables("over") THEN Range(fillable_fields(t)) \cup {"nope"} ELSE {}

ColumnDefinitions == {NoneDef} \cup {ScalarDef(v) : v \in Scalars}

\* The 'columns' dicts of a definition of table t: the keys are distinct
ColumnLists(t) ==
    {cl \in SeqsUpTo([column : DefinableColumns(t), def : ColumnDefinitions], MaxDefs) :
        \A i, j \in 1..Len(cl) : i # j => cl[i].column # cl[j].column}

\* The entries of table_definitions: a table of the database, or "zz"
TableEntries ==
    UNION {{[table |-> t, columns |-> cl] : cl \in ColumnLists(t)} :
              t \in SchemaTables("over") \cup {"zz"}}

DefsIn(d) == IF d = <<>> THEN 0 ELSE Len(d[1].columns) + (IF Len(d) > 1 THEN Len(d[2].columns) ELSE 0)

TableDefinitions ==
    {d \in SeqsUpTo(TableEntries, 2) :
        /\ \A i, j \in 1..Len(d) : i # j => d[i].table # d[j].table
        /\ DefsIn(d) <= MaxDefs}

\* FakeFactory(locale, database, table_definitions): the whole __init__
NewFactory ==
    /\ ~factory.ready /\ Running
    /\ LET st == InitTables(SchemaTables(schema), factory.table_definitions,
                            [columns |-> <<>>, column_definition |-> NoneDef,
                             error |-> "none"])
       IN  /\ factory' = [factory EXCEPT !.ready = (st.error = "none"),
                                         !.columns = st.columns,
                                         !.column_definition = st.column_definition]
           /\ error' = st.error
    /\ UNCHANGED <<schema, catalog, num_of_rows, db, pos, stack, memo, nfr, log, calls, gen>>

FactoryInit ==
    /\ InitOn({"over"})
    /\ factory \in {[ready |-> FALSE, table_definitions |-> d, columns |-> <<>>,
                     column_definition |-> NoneDef] : d \in TableDefinitions}

\* Schema "over" has no foreign key and no unique index: the run takes the
\* steps below only
FactoryNext ==
    \/ NewFactory
    \/ Generate
    \/ NewFakeRow
    \/ AttemptInsert
    \/ ReturnRows

SpecFactory == FactoryInit /\ [][FactoryNext]_vars

(***************************************************************************)
(* The specification of the factory's construction followed by the run,    *)
(* on schema "hook": table h has a nullable FK column, a nullable typed    *)
(* column and a column of a type without generator, and table_definitions *)
(* gives some of them a column definition.                                 *)
(***************************************************************************)
\* The column definitions of table h: none, a scalar, a func that returns
\* a callable, a func that returns a string
HookDefinitions == {NoneDef, ScalarDef(MaxVal), FactoryDef(MaxVal), StrDef}

\* The 'columns' dicts of the definition of table h: the keys are distinct
HookColumnLists ==
    {cl \in SeqsUpTo([column : Range(fillable_fields("h")), def : HookDefinitions],
                     MaxDefs) :
        \A i, j \in 1..Len(cl) : i # j => cl[i].column # cl[j].column}

OverrideInit ==
    /\ InitOn({"hook"})
    /\ factory \in {[ready |-> FALSE,
                     table_definitions |-> <<[table |-> "h", columns |-> cl]>>,
                     columns |-> <<>>,
                     column_definition |-> NoneDef] : cl \in HookColumnLists}

\* Schema "hook" has no unique index: no attempt fails its test
OverrideNext ==
    \/ NewFactory
    \/ Generate
    \/ VisitParent
    \/ NewFakeRow
    \/ AttemptInsert
    \/ AttemptRaise
    \/ ReturnRows

SpecOverride == OverrideInit /\ [][OverrideNext]_vars

(***************************************************************************)
(* The specification of the driver on schema "cycle": cx references cz and *)
(* cy, cy references cx.                                                   *)
(***************************************************************************)
CycleInit == InitOn({"cycle"}) /\ factory = NoDefinitions

CycleNext ==
    \/ Generate
    \/ VisitParent
    \/ RecursionOverflow
    \/ NewFakeRow
    \/ AttemptInsert
    \/ ReturnRows

SpecCycle == CycleInit /\ [][CycleNext]_vars

(***************************************************************************)
(* ValueFactory, the integer generators (fake.py, FakeColumn.tinyint to    *)
(* bigint). Their bounds exceed the model checker's integers, so a number  *)
(* is a sign and its decimal digits, least significant first.              *)
(***************************************************************************)
Reverse(seq) == [i \in 1..Len(seq) |-> seq[Len(seq) + 1 - i]]

\* The number a decimal literal of the source denotes
Lit(neg, digits) == [neg |-> neg, mag |-> Reverse(digits)]

Zero == Lit(FALSE, <<0>>)

\* Most significant zeros removed
Normal(mag) ==
    LET top == MaxOf({i \in 1..Len(mag) : mag[i] # 0} \cup {1})
    IN  SubSeq(mag, 1, top)

\* 2 * mag: a digit of 5 or more carries one into the next digit
DoubleMag(mag) ==
    Normal([i \in 1..(Len(mag) + 1) |->
               ((IF i <= Len(mag) THEN 2 * mag[i] ELSE 0)
                + (IF i > 1 /\ mag[i - 1] >= 5 THEN 1 ELSE 0)) % 10])

\* mag + 1: the nines below the first digit that is not 9 turn to 0
IncMag(mag) ==
    LET k == CHOOSE i \in 1..(Len(mag) + 1) :
                 /\ i > Len(mag) \/ mag[i] # 9
                 /\ \A j \in 1..(i - 1) : mag[j] = 9
    IN  [i \in 1..(IF k > Len(mag) THEN k ELSE Len(mag)) |->
            IF i < k THEN 0 ELSE IF i = k THEN (IF k > Len(mag) THEN 1 ELSE mag[i] + 1)
            ELSE mag[i]]

\* mag - 1, for mag > 0: the zeros below the first digit that is not 0 turn to 9
DecMag(mag) ==
    LET k == CHOOSE i \in 1..Len(mag) : mag[i] # 0 /\ \A j \in 1..(i - 1) : mag[j] = 0
    IN  Normal([i \in 1..Len(mag) |->
                   IF i < k THEN 9 ELSE IF i = k THEN mag[i] - 1 ELSE mag[i]])

MagLess(a, b) ==
    \/ Len(a) < Len(b)
    \/ /\ Len(a) = Len(b)
       /\ \E i \in 1..Len(a) : a[i] < b[i] /\ \A j \in (i + 1)..Len(a) : a[j] = b[j]

\* x <= y
NumLe(x, y) ==
    IF x.neg /\ ~y.neg THEN TRUE
    ELSE IF ~x.neg /\ y.neg THEN FALSE
    ELSE IF x.neg THEN ~MagLess(x.mag, y.mag)
    ELSE ~MagLess(y.mag, x.mag)

\* x + 1
NumSucc(x) ==
    IF x.neg THEN [neg |-> DecMag(x.mag) # <<0>>, mag |-> DecMag(x.mag)]
    ELSE [neg |-> FALSE, mag |-> IncMag(x.mag)]

\* x - 1
NumPred(x) ==
    IF x.neg THEN [neg |-> TRUE, mag |-> IncMag(x.mag)]
    ELSE IF x.mag = <<0>> THEN [neg |-> TRUE, mag |-> <<1>>]
    ELSE [neg |-> FALSE, mag |-> DecMag(x.mag)]

\* random.randint(a, b): any integer from a to b; the model draws both ends,
\* their neighbours and zero
randint(a, b) ==
    {x \in {a, NumSucc(a), Zero, NumPred(b), b} : NumLe(a, x) /\ NumLe(x, b)}

\* FakeColumn.tinyint; unsigned is Column.unsigned (None counts as false),
\* prevent_negative is one of "None", "True", "False"
tinyint(unsigned, prevent_negative) ==
    IF unsigned THEN randint(Lit(FALSE, <<0>>), Lit(FALSE, <<2,5,5>>))
    ELSE IF prevent_negative = "True" THEN randint(Lit(FALSE, <<0>>), Lit(FALSE, <<1,2,7>>))
    ELSE randint(Lit(TRUE, <<1,2,8>>), Lit(FALSE, <<1,2,7>>))

\* FakeColumn.smallint
smallint(unsigned, prevent_negative) ==
    IF unsigned THEN randint(Lit(FALSE, <<0>>), Lit(FALSE, <<6,5,5,3,5>>))
    ELSE IF prevent_negative = "True" THEN randint(Lit(FALSE, <<0>>), Lit(FALSE, <<3,2,7,6,7>>))
    ELSE randint(Lit(TRUE, <<3,2,7,6,8>>), Lit(FALSE, <<3,2,7,6,7>>))

\* FakeColumn.mediumint
mediumint(unsigned, prevent_negative) ==
    IF unsigned THEN randint(Lit(FALSE, <<0>>), Lit(FALSE, <<1,6,7,7,7,2,1,5>>))
    ELSE IF prevent_negative = "True"
    THEN randint(Lit(FALSE, <<0>>), Lit(FALSE, <<8,3,8,8,6,0,7>>))
    ELSE randint(Lit(TRUE, <<8,3,8,8,6,0,8>>), Lit(FALSE, <<8,3,8,8,6,0,7>>))

\* Mutant of int: prevent_negative is ignored
int_negative(unsigned, prevent_negative) ==
    IF unsigned THEN randint(Lit(FALSE, <<0>>), Lit(FALSE, <<4,2,9,4,9,6,7,2,9,5>>))
    ELSE randint(Lit(TRUE, <<2,1,4,7,4,8,3,6,4,8>>), Lit(FALSE, <<2,1,4,7,4,8,3,6,4,7>>))

\* FakeColumn.int
int(unsigned, prevent_negative) ==
    IF unsigned THEN randint(Lit(FALSE, <<0>>), Lit(FALSE, <<4,2,9,4,9,6,7,2,9,5>>))
    ELSE IF prevent_negative = "True"
    THEN randint(Lit(FALSE, <<0>>), Lit(FALSE, <<2,1,4,7,4,8,3,6,4,7>>))
    ELSE randint(Lit(TRUE, <<2,1,4,7,4,8,3,6,4,8>>), Lit(FALSE, <<2,1,4,7,4,8,3,6,4,7>>))

\* FakeColumn.bigint
bigint(unsigned, prevent_negative) ==
    IF unsigned
    THEN randint(Lit(FALSE, <<0>>),
                 Lit(FALSE, <<1,8,4,4,6,7,4,4,0,7,3,7,0,9,5,5,1,6,1,5>>))
    ELSE IF prevent_negative = "True"
    THEN randint(Lit(FALSE, <<0>>),
                 Lit(FALSE, <<9,2,2,3,3,7,2,0,3,6,8,5,4,7,7,5,8,0,7>>))
    ELSE randint(Lit(TRUE, <<9,2,2,3,3,7,2,0,3,6,8,5,4,7,7,5,8,0,8>>),
                 Lit(FALSE, <<9,2,2,3,3,7,2,0,3,6,8,5,4,7,7,5,8,0,7>>))

IntTypes == {"tinyint", "smallint", "mediumint", "int", "bigint"}

\* FakeColumn.__call__ with no override: getattr(self, self.column.type)()
TypeGenerator(type, unsigned, prevent_negative) ==
    CASE type = "tinyint"   -> tinyint(unsigned, prevent_negative)
      [] type = "smallint"  -> smallint(unsigned, prevent_negative)
      [] type = "mediumint" -> mediumint(unsigned, prevent_negative)
      [] type = "int"       -> int(unsigned, prevent_negative)
      [] type = "bigint"    -> bigint(unsigned, prevent_negative)

\* One call of an integer generator on a column of the given type
GenerateInt ==
    /\ \E type \in IntTypes, unsigned \in BOOLEAN,
          prevent_negative \in {"None", "True", "False"} :
          \E v \in TypeGenerator(type, unsigned, prevent_negative) :
             gen' = [type |-> type, unsigned |-> unsigned,
                     prevent_negative |-> prevent_negative, value |-> v]
    /\ UNCHANGED <<schema, catalog, num_of_rows, db, pos, stack, memo, nfr, log, calls, error, factory>>

IntInit ==
    /\ schema = "none" /\ catalog = <<>>
    /\ num_of_rows = <<>> /\ db = <<>> /\ memo = <<>> /\ calls = <<>>
    /\ pos = 1 /\ stack = <<>> /\ nfr = Idle /\ log = <<>> /\ error = "none"
    /\ gen = NoGen
    /\ factory = NoDefinitions

IntNext == GenerateInt

SpecInt == IntInit /\ [][IntNext]_vars

(***************************************************************************)
(* ValueFactory, varchar (fake.py, FakeColumn.varchar). A string is the    *)
(* list of its letters.                                                    *)
(***************************************************************************)
\* Largest declared size of a varchar column.
MaxSize == 5

Letters == {"a", "b"}

\* Faker.random_letters(length): length letters
random_letters(length) == [1..length -> Letters]

\* Faker.random_int(min, max)
random_int(min, max) == min..max

\* Faker.text(max_nb_chars): a text of 1 to max_nb_chars characters
text(max_nb_chars) == UNION {[1..k -> Letters] : k \in 1..max_nb_chars}

\* Mutant of varchar: the letter run may have no letter
varchar_from_zero(size, is_empty) ==
    IF is_empty THEN {<<>>}
    ELSE IF size < 5
    THEN UNION {random_letters(length) : length \in random_int(0, size)}
    ELSE text(size)

\* FakeColumn.varchar on a column of the given size; is_empty is the
\* outcome of the empty_ratio draw
varchar(size, is_empty) ==
    IF is_empty THEN {<<>>}
    ELSE IF size < 5
    THEN UNION {random_letters(length) : length \in random_int(1, size)}
    ELSE text(size)

\* One call of the varchar generator
GenerateVarchar ==
    /\ \E size \in 1..MaxSize, is_empty \in BOOLEAN :
          \E v \in varchar(size, is_empty) :
             gen' = [type |-> "varchar", size |-> size, is_empty |-> is_empty, value |-> v]
    /\ UNCHANGED <<schema, catalog, num_of_rows, db, pos, stack, memo, nfr, log, calls, error, factory>>

ValueNext == GenerateInt \/ GenerateVarchar

SpecValue == IntInit /\ [][ValueNext]_vars

(***************************************************************************)
(* UniqueForeignScope on its own (mysql.py): one scope object, built from  *)
(* the candidate tuples of two unique indexes, uq_a over the FK columns    *)
(* f1, f2 and uq_b over the FK column g, and narrowed by calls of          *)
(* random_scope_column. A parent value may be NULL.                        *)
(***************************************************************************)
ScopeColumns == {"f1", "f2", "g"}

ScopeValues == Vals \cup {NULL}

\* The lists of at most MaxRows candidate tuples over the given columns
Candidates(columns) ==
    {rows \in SUBSET [columns -> ScopeValues] : Cardinality(rows) <= MaxRows}

\* UniqueForeignScope(foreign_rows_set)
ScopeInit ==
    /\ schema = "none" /\ catalog = <<>>
    /\ num_of_rows = <<>> /\ db = <<>> /\ memo = <<>> /\ calls = <<>>
    /\ pos = 1 /\ stack = <<>> /\ nfr = Idle /\ log = <<>> /\ error = "none"
    /\ factory = NoDefinitions
    /\ \E a \in Candidates({"f1", "f2"}), b \in Candidates({"g"}) :
          gen = [type |-> "scope", rows_set |-> [uq_a |-> a, uq_b |-> b],
                 column |-> "", value |-> NULL,
                 before |-> [uq_a |-> a, uq_b |-> b]]

\* One call of random_scope_column on the scope object
RandomScopeColumn ==
    /\ gen.type = "scope"
    /\ \E c \in ScopeColumns :
          \E o \in random_scope_column(gen.rows_set, c) :
             gen' = [type |-> "scope", rows_set |-> o.scope, column |-> c,
                     value |-> o.value, before |-> gen.rows_set]
    /\ UNCHANGED <<schema, catalog, num_of_rows, db, pos, stack, memo, nfr, log, calls, error, factory>>

ScopeNext == RandomScopeColumn

SpecScope == ScopeInit /\ [][ScopeNext]_vars

(***************************************************************************)
(* Column.__init__ and Column.fillable on their own (mysql.py): one column *)
(* reflected from a row of SHOW FULL COLUMNS as the server may give it.    *)
(***************************************************************************)
\* The Extra texts of the server, split into words
ExtraTexts ==
    {<<>>, <<"auto_increment">>, <<"DEFAULT_GENERATED">>,
     <<"on", "update", "CURRENT_TIMESTAMP">>,
     <<"DEFAULT_GENERATED", "on", "update", "CURRENT_TIMESTAMP">>,
     <<"on", "update", "CURRENT_TIMESTAMP(6)">>,
     <<"DEFAULT_GENERATED", "on", "update", "CURRENT_TIMESTAMP(6)">>,
     <<"VIRTUAL", "GENERATED">>, <<"STORED", "GENERATED">>}

\* The Default texts of the server
DefaultTexts == {"", "0", "CURRENT_TIMESTAMP", "CURRENT_TIMESTAMP(6)", "now()"}

\* The rows the server gives: auto_increment on integers, ON UPDATE on
\* temporal columns, DEFAULT_GENERATED with a default that is an expression
ServerGives(type, default, extra) ==
    /\ "auto_increment" \in Range(extra) => (type \in IntTypes /\ default = "")
    /\ "update" \in Range(extra) => type \in {"timestamp", "datetime"}
    /\ "DEFAULT_GENERATED" \in Range(extra)
          <=> default \in {"CURRENT_TIMESTAMP", "CURRENT_TIMESTAMP(6)", "now()"}
    /\ default \in {"CURRENT_TIMESTAMP", "CURRENT_TIMESTAMP(6)", "now()"}
          => type \in {"timestamp", "datetime"}
    /\ default = "CURRENT_TIMESTAMP(6)" => "CURRENT_TIMESTAMP" \notin Range(extra)
    /\ "CURRENT_TIMESTAMP(6)" \in Range(extra) => default # "CURRENT_TIMESTAMP"

\* Column(table, meta), then fillable()
ReflectColumn ==
    /\ \E type \in IntTypes \cup {"timestamp", "datetime", "varchar"},
          null \in {"YES", "NO"}, default \in DefaultTexts, extra \in ExtraTexts :
          LET m == ColMeta("col", type, <<>>, null, default, extra)
          IN  /\ ServerGives(type, default, extra)
              /\ gen' = [type |-> "column", meta |-> m,
                      auto_increment |-> auto_increment(m),
                      on_update |-> on_update(m), fillable |-> fillable(m)]
    /\ UNCHANGED <<schema, catalog, num_of_rows, db, pos, stack, memo, nfr, log, calls, error, factory>>

ColumnNext == ReflectColumn

SpecColumn == IntInit /\ [][ColumnNext]_vars

(***************************************************************************)
(* Properties.                                                             *)
(***************************************************************************)
\* The INSERTs issued into table t, as positions of the log
InsertsInto(t) == {i \in 1..Len(log) : log[i].q.table = t}

\* The FK edges of the reflected schema between distinct tables
ForeignEdges ==
    {r \in Range(KeyColumnUsage) :
        r.table_name \in DOMAIN db /\ r.table_name # r.referenced_table_name}

\* Whether some row of rows holds value v in column c
Holds(rows, c, v) == \E i \in 1..Len(rows) : rows[i][c] = v

\* C1: for every FK edge child -> parent between distinct tables, whatever
\* the catalog order, every INSERT into the parent is issued before the
\* first INSERT into the child.
C1_ParentBeforeChild ==
    \A r \in ForeignEdges :
        \A i \in InsertsInto(r.referenced_table_name) :
            \A j \in InsertsInto(r.table_name) : i < j

C1_Witness ==
    /\ schema = "chain" /\ catalog = <<"a", "b", "c">> /\ Done
    /\ \A t \in {"a", "b", "c"} : InsertsInto(t) # {}

\* C2: for every reflected unique index of every table, no two rows whose
\* index columns are all non-NULL hold the same values on those columns.
C2_UniqueIndexesHold ==
    \A t \in DOMAIN db :
        \A k \in Range(unique_index_keys(t)) :
            \A i, j \in 1..Len(db[t]) :
                (/\ i < j
                 /\ \A c \in Range(unique_indexes(t, k)) :
                        db[t][i][c] # NULL /\ db[t][j][c] # NULL)
                => \E c \in Range(unique_indexes(t, k)) : db[t][i][c] # db[t][j][c]

C2_Witness ==
    /\ schema = "uniq" /\ Len(db["u"]) >= 2
    /\ nfr.active /\ nfr.table = "u" /\ nfr.attempt > 0

\* C3: every non-NULL value of an FK column of an INSERT is, when the
\* INSERT is issued, a value of the referenced column of the parent table
\* (random-parent-row branch and foreign-scope branch alike).
C3_ForeignValuePresent ==
    [][Len(log') > Len(log) =>
          LET rec == log'[Len(log')]
              t   == rec.q.table
          IN  \A c \in DOMAIN rec.val :
                  (referenced_to(t, c) # <<>> /\ rec.val[c] # NULL)
                  => Holds(db[referenced_to(t, c)[1]], referenced_to(t, c)[2], rec.val[c])]_vars

C3_Witness ==
    \E i \in InsertsInto("cc") : log[i].val["f1"] # NULL /\ log[i].val["f3"] # NULL

\* C4: new_fake_row is invoked exactly num_of_rows times for each table in
\* one run, so at most num_of_rows rows are inserted into it, whatever the
\* catalog order and however many tables reference it.
C4_SynthesizedNumOfRowsTimes ==
    \A t \in DOMAIN calls :
        /\ calls[t] <= num_of_rows[t]
        /\ Cardinality(InsertsInto(t)) <= num_of_rows[t]
        /\ Done => calls[t] = num_of_rows[t]

\* C5: every INSERT lists exactly the columns of its table that are not
\* auto-increment and whose DEFAULT and ON UPDATE are not CURRENT_TIMESTAMP,
\* in declared order, with one named parameter per listed column in the
\* same order.
C5_InsertListsFillableColumns ==
    \A i \in 1..Len(log) :
        LET t == log[i].q.table
        IN  /\ log[i].q.columns =
                   SelectSeq(fields(t),
                             LAMBDA c : /\ ~auto_increment(Meta(t, c))
                                        /\ Meta(t, c).default # "CURRENT_TIMESTAMP"
                                        /\ on_update(Meta(t, c)) # <<"CURRENT_TIMESTAMP">>)
            /\ log[i].q.params = log[i].q.columns
            /\ DOMAIN log[i].val = Range(log[i].q.params)

\* C6: every value an INSERT carries for a column with nullable = false is
\* non-NULL, also for an FK column whose parent has no rows or whose
\* foreign scope has no candidate left.
C6_NotNullColumnsGetValues ==
    \A i \in 1..Len(log) :
        \A c \in DOMAIN log[i].val :
            ~nullable(Meta(log[i].q.table, c)) => log[i].val[c] # NULL

\* The FK columns of index k of table t that reference table rt
ScopedForeignColumns(t, k, rt) ==
    {c \in Range(unique_indexes(t, k)) :
        referenced_to(t, c) # <<>> /\ referenced_to(t, c)[1] = rt}

\* Whether one row of rows holds, for every column c of cols, the value
\* val[c] in the column c references
OneParentRow(t, rows, cols, val) ==
    \E i \in 1..Len(rows) : \A c \in cols : rows[i][referenced_to(t, c)[2]] = val[c]

\* C7: when several FK columns of one unique index reference one parent
\* table and all get non-NULL values in an INSERT, the values are the
\* projection of a single row of the parent.
C7_ScopedValuesFromOneParentRow ==
    [][Len(log') > Len(log) =>
          LET rec == log'[Len(log')]
              t   == rec.q.table
          IN  \A k \in Range(unique_index_keys(t)) : \A rt \in DOMAIN db :
                  (/\ Cardinality(ScopedForeignColumns(t, k, rt)) >= 2
                   /\ \A c \in ScopedForeignColumns(t, k, rt) : rec.val[c] # NULL)
                  => OneParentRow(t, db[rt], ScopedForeignColumns(t, k, rt), rec.val)]_vars

C7_Witness ==
    /\ schema = "scope"
    /\ db["pp"] = <<[k1 |-> 1, k2 |-> 2], [k1 |-> 2, k2 |-> 1]>>
    /\ \E i \in InsertsInto("cc") : log[i].val["f1"] # NULL /\ log[i].val["f2"] # NULL

\* The FK columns of table t outside every unique index that reference rt
RandomForeignColumns(t, rt) ==
    {c \in Range(fillable_fields(t)) :
        /\ referenced_to(t, c) # <<>> /\ referenced_to(t, c)[1] = rt
        /\ c \notin constraint_columns(t)}

\* C8: any two FK columns of one table that reference the same parent and
\* belong to no unique index get, when both are non-NULL in an INSERT, the
\* values of a single row of the parent.
C8_RandomValuesFromOneParentRow ==
    [][Len(log') > Len(log) =>
          LET rec == log'[Len(log')]
              t   == rec.q.table
          IN  \A rt \in DOMAIN db : \A c1, c2 \in RandomForeignColumns(t, rt) :
                  (rec.val[c1] # NULL /\ rec.val[c2] # NULL)
                  => OneParentRow(t, db[rt], {c1, c2}, rec.val)]_vars

C8_Witness ==
    /\ schema = "pair" /\ Len(db["p"]) >= 2
    /\ \E i \in InsertsInto("ch") :
          /\ log[i].val["f1"] # NULL /\ log[i].val["f2"] # NULL
          /\ log[i].val["f1"] # log[i].val["f2"]

\* 2^8 * mag
Times256(mag) ==
    DoubleMag(DoubleMag(DoubleMag(DoubleMag(DoubleMag(DoubleMag(DoubleMag(DoubleMag(mag))))))))

Pow2_7 == DoubleMag(DoubleMag(DoubleMag(DoubleMag(DoubleMag(DoubleMag(DoubleMag(<<1>>)))))))
Pow2_15 == Times256(Pow2_7)
Pow2_23 == Times256(Pow2_15)
Pow2_31 == Times256(Pow2_23)
Pow2_63 == Times256(Times256(Times256(Times256(Pow2_31))))

\* 2^w for the widths of the integer types, and for one bit less
Pow2(w) ==
    CASE w = 7 -> Pow2_7 [] w = 8 -> DoubleMag(Pow2_7)
      [] w = 15 -> Pow2_15 [] w = 16 -> DoubleMag(Pow2_15)
      [] w = 23 -> Pow2_23 [] w = 24 -> DoubleMag(Pow2_23)
      [] w = 31 -> Pow2_31 [] w = 32 -> DoubleMag(Pow2_31)
      [] w = 63 -> Pow2_63 [] w = 64 -> DoubleMag(Pow2_63)

\* The width in bits of a MySQL integer type
BitsOf(type) ==
    CASE type = "tinyint" -> 8 [] type = "smallint" -> 16 [] type = "mediumint" -> 24
      [] type = "int" -> 32 [] type = "bigint" -> 64

\* C9: a generated integer v of a type of w bits satisfies
\* 0 <= v <= 2^w - 1 when the column is unsigned, 0 <= v <= 2^(w-1) - 1
\* when it is signed and prevent_negative is true, and
\* -2^(w-1) <= v <= 2^(w-1) - 1 otherwise.
C9_IntegerRange ==
    gen.type \in IntTypes =>
        LET w    == BitsOf(gen.type)
            full == [neg |-> FALSE, mag |-> DecMag(Pow2(w))]
            half == [neg |-> FALSE, mag |-> DecMag(Pow2(w - 1))]
            low  == [neg |-> TRUE, mag |-> Pow2(w - 1)]
        IN  IF gen.unsigned THEN NumLe(Zero, gen.value) /\ NumLe(gen.value, full)
            ELSE IF gen.prevent_negative = "True"
            THEN NumLe(Zero, gen.value) /\ NumLe(gen.value, half)
            ELSE NumLe(low, gen.value) /\ NumLe(gen.value, half)

C9_Witness ==
    /\ gen.type = "bigint" /\ gen.unsigned
    /\ gen.value = [neg |-> FALSE, mag |-> DecMag(Pow2(64))]

\* The last attempt of the active new_fake_row call can only fail its test
LastAttemptFails ==
    /\ nfr.active /\ nfr.attempt + 1 = Retries
    /\ \A o \in Filled : test(nfr.table, db[nfr.table], o.row.val) = "false"

\* Whether some row of the run has been given up: a None stands in a list
\* generate_fake_rows is building or has returned
SkippedRow ==
    \/ \E i \in 1..Len(stack) : NoRow \in Range(stack[i].fake_rows)
    \/ \E t \in DOMAIN memo : NoRow \in Range(memo[t].rows)

\* C10: when all the attempts of a row fail the unique test, new_fake_row
\* issues no INSERT and returns None, which generate_fake_rows appends; from
\* then on the run always has a next step until generate() has visited every
\* table, and every list generate_fake_rows returns has exactly num_of_rows
\* entries.
C10_ExhaustedRowIsSkipped ==
    /\ [][LastAttemptFails =>
             (\/ UNCHANGED vars
              \/ /\ nfr' = Idle /\ log' = log /\ db' = db /\ error' = "none"
                 /\ stack' = SetTop([Top EXCEPT !.fake_rows = Append(@, NoRow)]))]_vars
    /\ [](\A t \in DOMAIN memo : memo[t].set => Len(memo[t].rows) = num_of_rows[t])
    /\ [](\A i \in 1..Len(stack) : Len(stack[i].fake_rows) <= num_of_rows[stack[i].table])
    /\ []((SkippedRow /\ Running /\ ~Done) => ENABLED Next)

C10_Witness ==
    /\ schema = "uniq" /\ Done
    /\ memo["u"].set /\ NoRow \in Range(memo["u"].rows)
    /\ InsertsInto("w") # {}

\* Whether generate() has ended, by returning or by an exception
Ended == Done \/ ~Running

\* C11: with user_role empty at the start, user and role non-empty and
\* num_of_rows = |user| * |role|, the run ends with |user| * |role| rows in
\* user_role, all of them distinct (user_id, role_id) pairs.
C11_AllPairsInserted ==
    (/\ schema = "role" /\ Ended
     /\ num_of_rows["user_role"] = Len(db["user"]) * Len(db["role"]))
    => /\ Len(db["user_role"]) = Len(db["user"]) * Len(db["role"])
       /\ \A i, j \in 1..Len(db["user_role"]) :
              i # j => <<db["user_role"][i]["user_id"], db["user_role"][i]["role_id"]>>
                       # <<db["user_role"][j]["user_id"], db["user_role"][j]["role_id"]>>

\* The scalar overrides table_definitions gives: [table, column, value]
ScalarOverrides ==
    {[table |-> factory.table_definitions[k].table,
      column |-> factory.table_definitions[k].columns[j].column,
      value |-> factory.table_definitions[k].columns[j].def.value] :
        <<k, j>> \in {kj \in (1..Len(factory.table_definitions)) \X (1..MaxDefs + 1) :
                        /\ kj[2] <= Len(factory.table_definitions[kj[1]].columns)
                        /\ factory.table_definitions[kj[1]].columns[kj[2]].def.kind = "scalar"}}

\* C12: a column given a scalar in table_definitions gets that scalar in
\* every INSERT (or NULL, when it is nullable and the nullable draw
\* succeeded), each column its own scalar.
C12_ScalarOverrideIsConstant ==
    \A i \in 1..Len(log) :
        \A o \in ScalarOverrides :
            (o.table = log[i].q.table /\ o.column \in DOMAIN log[i].val)
            => \/ log[i].val[o.column] = o.value
               \/ nullable(Meta(o.table, o.column)) /\ log[i].val[o.column] = NULL

\* C13 as stated: every value generated for a varchar(n) column has
\* between 1 and n characters.
C13_VarcharLengthFromOne ==
    gen.type = "varchar" => 1 <= Len(gen.value) /\ Len(gen.value) <= gen.size

\* C13, amended: every value generated for a varchar(n) column has at most
\* n characters; it is the empty string exactly when the empty_ratio draw
\* succeeded, and has 1 to n characters otherwise.
C13_VarcharLength ==
    gen.type = "varchar" =>
        /\ Len(gen.value) <= gen.size
        /\ (Len(gen.value) = 0) <=> gen.is_empty

C13_Witness ==
    /\ gen.type = "varchar" /\ gen.size >= 5
    /\ ~gen.is_empty /\ Len(gen.value) = gen.size

\* No table has two active generate_fake_rows calls
NoSelfRecursion ==
    \A i, j \in 1..Len(stack) : i # j => stack[i].table # stack[j].table

\* A generation makes at most num_of_rows calls of new_fake_row, each of at
\* most Retries attempts
AttemptsBounded ==
    nfr.active => /\ nfr.attempt < Retries
                  /\ Len(Top.fake_rows) < num_of_rows[Top.table]

\* C14, the run always ends (under FairSpec)
C14_Terminates == <>Ended

\* C14: a self-reference never causes a recursive call, each generation
\* stays within num_of_rows * 100 attempts, and when generate() has ended
\* its loop has visited every table of the database.
C14_EndsWithEveryTableVisited ==
    /\ NoSelfRecursion
    /\ AttemptsBounded
    /\ Ended => pos > Len(catalog)

\* Whether table_definitions names a table the database does not have, or
\* a column its table does not have
NamesUnknown ==
    \E k \in 1..Len(factory.table_definitions) :
        LET e == factory.table_definitions[k]
        IN  \/ e.table \notin SchemaTables(schema)
            \/ \E j \in 1..Len(e.columns) : e.columns[j].column \notin Range(fields(e.table))

\* C15: constructing the factory from table_definitions that name an
\* unknown table or column raises ColumnNotFound; no FakeColumn stands for a
\* column the table does not have, the factory never becomes usable and no
\* INSERT is issued.
C15_UnknownNameRaises ==
    /\ [][(NamesUnknown /\ ~factory.ready /\ Running)
             => (error' = "ColumnNotFound" /\ ~factory'.ready /\ log' = <<>>)]_vars
    /\ [](NamesUnknown => ~factory.ready /\ log = <<>>)
    /\ [](\A k \in DOMAIN factory.columns :
             k[1] \in SchemaTables(schema) /\ k[2] \in Range(fields(k[1])))

C15_Witness ==
    /\ error = "ColumnNotFound"
    /\ Len(factory.table_definitions) = 2
    /\ \A k \in 1..2 : factory.table_definitions[k].table \in SchemaTables(schema)
    /\ \A j \in 1..Len(factory.table_definitions[1].columns) :
           factory.table_definitions[1].columns[j].column
               \in Range(fields(factory.table_definitions[1].table))

\* A step of new_fake_row that issues an INSERT: an attempt of the active
\* call tested true on the table as it is, the INSERT carries the tested
\* values, the table gains at most the row stored for them, and the call
\* is over
InsertFollowsTrueTest ==
    log' # log =>
        /\ nfr.active /\ ~nfr'.active
        /\ \E o \in Filled :
              /\ test(nfr.table, db[nfr.table], o.row.val) = "true"
              /\ log' = Append(log, [q |-> insert_query(nfr.table, o.row), val |-> o.row.val])
              /\ db' \in {db, [db EXCEPT ![nfr.table] =
                                  Append(@, StoredRow(nfr.table, @, o.row.val))]}

\* A step of new_fake_row that goes on to another attempt, or gives the
\* row up: the attempt tested false and nothing was written
NoInsertAfterFalseTest ==
    (nfr.active /\ log' = log /\ nfr' # nfr) =>
        /\ db' = db
        /\ \E o \in Filled : test(nfr.table, db[nfr.table], o.row.val) # "true"

\* The step that ends a call of new_fake_row hands a non-nil row to
\* generate_fake_rows iff it issued the INSERT
ReturnsRowIffInserted ==
    (nfr.active /\ ~nfr'.active) =>
        ((/\ Len(stack') = Len(stack)
          /\ Len(stack'[Len(stack)].fake_rows) = Len(Top.fake_rows) + 1
          /\ ~stack'[Len(stack)].fake_rows[Len(Top.fake_rows) + 1].nil)
         <=> log' # log)

\* C16: a call of new_fake_row makes at most Retries attempts and issues at
\* most one INSERT, exactly when an attempt tested true, with the tested
\* values and no write in between; no attempt follows the INSERT, and the
\* call returns a non-nil row iff it issued the INSERT.
C16_InsertExactlyAfterTrueTest ==
    /\ [](nfr.active => nfr.attempt < Retries)
    /\ [][InsertFollowsTrueTest /\ NoInsertAfterFalseTest /\ ReturnsRowIffInserted]_vars

\* C17: every attempt of new_fake_row starts from the foreign scope as
\* fetch_available_foreign_rows_set gives it, not narrowed by the values an
\* earlier attempt of the call chose.
C17_FreshScopePerAttempt ==
    nfr.active => nfr.scope = fetch_available_foreign_rows_set(nfr.table, db)

\* The last step was a call of random_scope_column on the scope object
ScopeCalled == gen.type = "scope" /\ gen.column # ""

\* C18: a call of random_scope_column leaves every bucket a part of what it
\* was before the call, adds and removes no bucket key, and leaves an empty
\* bucket empty.
C18_ScopeOnlyShrinks ==
    ScopeCalled =>
        /\ DOMAIN gen.rows_set = DOMAIN gen.before
        /\ \A k \in DOMAIN gen.before :
              /\ k \in DOMAIN gen.rows_set => gen.rows_set[k] \subseteq gen.before[k]
              /\ gen.before[k] = {} => k \in DOMAIN gen.rows_set /\ gen.rows_set[k] = {}

\* A call that emptied one bucket and narrowed the other
C18_Witness ==
    /\ ScopeCalled
    /\ gen.rows_set.uq_b = {} /\ gen.before.uq_b # {}
    /\ gen.rows_set.uq_a # {} /\ gen.rows_set.uq_a # gen.before.uq_a

\* C19: a call that picks v removes exactly the tuples that carry another
\* value at the column and keeps the tuples with no entry for the column; a
\* call that finds no candidate returns nil and changes no bucket.
C19_RemovesOnlyDifferingTuples ==
    ScopeCalled =>
        IF gen.value # NULL
        THEN \A k \in DOMAIN gen.before :
                gen.rows_set[k] = {row \in gen.before[k] :
                                     gen.column \in DOMAIN row => row[gen.column] = gen.value}
        ELSE gen.rows_set = gen.before

\* C20: on every reachable table contents, no tuple that
\* fetch_available_foreign_values returns for a unique index agrees with a
\* tuple of the child table on all FK columns of the index, and every value
\* of a returned tuple is a value of the referenced parent column.
C20_NeverUnderFilters ==
    \A t \in DOMAIN db : \A key \in Range(unique_index_keys(t)) :
        LET columns == unique_indexes(t, key)
            fk      == Range(ForeignColumns(t, columns))
        IN  \A tuple \in fetch_available_foreign_values(t, db, columns) :
               /\ \A e \in fetch_unique_rows(db[t], columns) :
                     \E c \in fk : tuple[c] # e[c]
               /\ \A c \in fk :
                     Holds(db[referenced_to(t, c)[1]], referenced_to(t, c)[2], tuple[c])

\* A call of new_fake_row whose scope was seeded with a candidate while the
\* child table holds a tuple, and the tuple is among those of the parents
C20_Witness ==
    /\ nfr.active /\ nfr.attempt = 0
    /\ Len(db[nfr.table]) >= 1
    /\ \E key \in DOMAIN nfr.scope :
          /\ nfr.scope[key] # {}
          /\ nfr.scope[key] = fetch_available_foreign_values(nfr.table, db, unique_indexes(nfr.table, key))
          /\ nfr.scope[key] #
                {[c \in Range(ForeignColumns(nfr.table, unique_indexes(nfr.table, key))) |->
                     pick[referenced_to(nfr.table, c)[1]][referenced_to(nfr.table, c)[2]]] :
                   pick \in FromProduct(db, {referenced_to(nfr.table, c)[1] :
                              c \in Range(ForeignColumns(nfr.table, unique_indexes(nfr.table, key)))})}

\* Some unique index of t has a row in rows that equals val, as the server
\* compares, on every column of the index
SomeIndexHolds(t, rows, val) ==
    \E key \in Range(unique_index_keys(t)) : \E i \in 1..Len(rows) :
        \A c \in Range(unique_indexes(t, key)) :
            c \in DOMAIN val /\ rows[i][c] # NULL /\ rows[i][c] = val[c]

\* C21: every verdict test gives on a tentative row is false exactly when
\* some unique index already holds the row's values on all its columns
\* (true for a table without a unique index); an attempt that issues no
\* INSERT leaves the table's rows as they were, and the row carried to the
\* next attempt is the row that was tested.
C21_TestFalseIffIndexHolds ==
    /\ [](nfr.active =>
            \A o \in Filled :
               LET verdict == test(nfr.table, db[nfr.table], o.row.val)
               IN  /\ verdict = "false" =>
                         SomeIndexHolds(nfr.table, db[nfr.table], o.row.val)
                   /\ verdict = "true" =>
                         ~SomeIndexHolds(nfr.table, db[nfr.table], o.row.val))
    /\ [][(nfr.active /\ log' = log) =>
             /\ db' = db
             /\ nfr'.active =>
                   \E o \in Filled :
                      /\ test(nfr.table, db[nfr.table], o.row.val) = "false"
                      /\ nfr'.row = o.row]_vars

\* A second attempt on a table with several unique indexes, after a test
\* that found the row in one of them, with an outcome that passes the test
C21_Witness ==
    /\ nfr.active /\ nfr.attempt >= 1
    /\ Len(unique_index_keys(nfr.table)) >= 2
    /\ SomeIndexHolds(nfr.table, db[nfr.table], nfr.row.val)
    /\ \E o \in Filled : test(nfr.table, db[nfr.table], o.row.val) = "true"

\* C22: once a table is memoized its memoized list never changes, no call
\* of generate_fake_rows opens a frame for it, no row of it is synthesized
\* and no INSERT into it is issued; the tables it references are memoized
\* as well, so the same holds of them.
C22_MemoizedTableIsNotGeneratedAgain ==
    /\ [](\A t \in DOMAIN memo : memo[t].set =>
            \A p \in Range(ParentLoop(t)) \ {t} : memo[p].set)
    /\ [][\A t \in DOMAIN memo : memo[t].set =>
             /\ memo'[t] = memo[t]
             /\ calls'[t] = calls[t]
             /\ db'[t] = db[t]
             /\ \A i \in 1..Len(stack') : stack'[i].table # t
             /\ \A i \in (Len(log) + 1)..Len(log') : log'[i].q.table # t]_vars

\* generate_fake_rows has gone past a referenced table that an earlier
\* referenced table had already generated and memoized
C22_Witness ==
    /\ stack # <<>>
    /\ \E i \in 2..Len(ParentLoop(Top.table)) :
          LET p == ParentLoop(Top.table)[i]
          IN  /\ Top.pidx > i
              /\ memo[p].set /\ Len(memo[p].rows) >= 1
              /\ \E j \in 1..(i - 1) :
                    p \in Range(ParentLoop(ParentLoop(Top.table)[j]))

\* C23: the value of a fillable column comes from the NULL draw (nullable
\* columns only, and always possible for them), else from the FK when the
\* column has one, else from the configured func, else from the generator
\* of the type; so every INSERT holds, in an FK column, NULL or a value of
\* the referenced column, whatever func the column was given.
C23_ValueSourcePriority ==
    /\ nfr.active =>
          \A c \in Range(AttemptColumns(nfr.table)) :
             LET outs == ColumnOutcomes(nfr.table, db, c, nfr.scope, nfr.seed)
                 fk   == referenced_to(nfr.table, c) # <<>>
                 func == FakeColumnOf(nfr.table, c).func # "None"
             IN  /\ nullable(Meta(nfr.table, c)) =>
                       \E o \in outs : o.source = "null" /\ o.value = NULL
                 /\ \A o \in outs :
                       /\ o.source = "null" => nullable(Meta(nfr.table, c))
                       /\ fk => o.source \in {"null", "foreign"}
                       /\ (~fk /\ func) => o.source \in {"null", "override"}
                       /\ (~fk /\ ~func) => o.source \in {"null", "type"}
    /\ \A i \in 1..Len(log) : \A c \in DOMAIN log[i].val :
          referenced_to(log[i].q.table, c) # <<>> =>
             \/ log[i].val[c] = NULL
             \/ Holds(db[referenced_to(log[i].q.table, c)[1]],
                      referenced_to(log[i].q.table, c)[2], log[i].val[c])

\* An INSERT whose FK column was given a func and holds the parent's value
C23_Witness ==
    \E i \in 1..Len(log) : \E c \in DOMAIN log[i].val :
        /\ referenced_to(log[i].q.table, c) # <<>>
        /\ FakeColumnOf(log[i].q.table, c).func # "None"
        /\ log[i].val[c] # NULL

\* The fillable columns of t without FK whose type has no generator
UnknownTypeColumns(t) ==
    {c \in Range(fillable_fields(t)) :
        referenced_to(t, c) = <<>> /\ Meta(t, c).type \notin GeneratorTypes}

C29_StringFuncValueIsStored ==
    \A i \in 1..Len(log) : \A c \in DOMAIN log[i].val :
        (referenced_to(log[i].q.table, c) = <<>>
         /\ FakeColumnOf(log[i].q.table, c).func = "str")
        => \/ log[i].val[c] = FuncString
           \/ nullable(Meta(log[i].q.table, c)) /\ log[i].val[c] = NULL

\* The tables t reaches over FK edges between distinct tables, in at most
\* n further steps from the tables of S
RECURSIVE ReachedFrom(_, _)
ReachedFrom(S, n) ==
    IF n = 0 THEN S
    ELSE ReachedFrom(S \cup UNION {Range(ParentLoop(t)) \ {t} : t \in S}, n - 1)

\* The tables on an FK cycle of two or more distinct tables
CycleTables ==
    {t \in DOMAIN db : t \in ReachedFrom(Range(ParentLoop(t)) \ {t}, Cardinality(DOMAIN db))}

\* C25: on an FK cycle of distinct tables generate_fake_rows notices
\* nothing: a call for a table of the cycle never returns (its frame is never
\* left), every step under it keeps or deepens the nesting, the nesting ends
\* only in the interpreter's RecursionError, and no INSERT into a table of
\* the cycle is issued.
C25_CycleRecursesWithoutReturn ==
    /\ [](\A i \in 1..Len(log) : log[i].q.table \notin CycleTables)
    /\ [](\A t \in CycleTables : calls[t] = 0 /\ ~memo[t].set)
    /\ [][\A i \in 1..Len(stack) : stack[i].table \in CycleTables =>
             /\ Len(stack') >= i
             /\ stack'[i].table = stack[i].table]_vars
    /\ []((error # "none" /\ \E i \in 1..Len(stack) : stack[i].table \in CycleTables)
             => (error = "RecursionError" /\ Len(stack) >= MaxDepth))

\* The nesting has reached the interpreter's limit through the cycle, after
\* the table outside the cycle was generated
C25_Witness ==
    /\ error = "RecursionError"
    /\ Len(stack) >= MaxDepth
    /\ \E i, j \in 1..Len(stack) : i # j /\ stack[i].table = stack[j].table
    /\ \E i \in 1..Len(log) : log[i].q.table \notin CycleTables

\* Extra with the prefix 'on update ' removed
OnUpdateExpression(extra) ==
    IF Len(extra) >= 2 /\ extra[1] = "on" /\ extra[2] = "update"
    THEN SubSeq(extra, 3, Len(extra)) ELSE extra

\* Extra announces 'on update CURRENT_TIMESTAMP'
AnnouncesOnUpdate(extra) ==
    \E i \in 1..Len(extra) :
        /\ i + 2 <= Len(extra)
        /\ extra[i] = "on" /\ extra[i + 1] = "update"
        /\ extra[i + 2] = "CURRENT_TIMESTAMP"

\* C26: a reflected column is fillable iff it is not auto-increment and
\* neither its Default nor its Extra without the prefix 'on update ' is
\* CURRENT_TIMESTAMP; and a column whose Extra announces
\* 'on update CURRENT_TIMESTAMP' is not fillable.
C26_FillableIffNotAutomatic ==
    gen.type = "column" =>
        /\ gen.fillable <=>
              /\ "auto_increment" \notin Range(gen.meta.extra)
              /\ gen.meta.default # "CURRENT_TIMESTAMP"
              /\ OnUpdateExpression(gen.meta.extra) # <<"CURRENT_TIMESTAMP">>
        /\ AnnouncesOnUpdate(gen.meta.extra) => ~gen.fillable

\* The first row of SHOW INDEX that names column c has key K, is not the
\* primary key and is unique
FirstIndexRowIsUnique(t, c, K) ==
    \E i \in 1..Len(IndexRows(t)) :
        /\ IndexRows(t)[i].column_name = c
        /\ \A j \in 1..(i - 1) : IndexRows(t)[j].column_name # c
        /\ IndexRows(t)[i].key_name = K
        /\ K # "PRIMARY"
        /\ IndexRows(t)[i].non_unique = 0

\* C27: for every reflected table, a column is in unique_indexes[K] iff
\* its first index row has key K, is not PRIMARY and is unique; a column is
\* in at most one unique index, once, and is a column of the table; the
\* constraints the run tests are these lists.
C27_UniqueIndexesReflectFirstIndexRow ==
    \A t \in DOMAIN db :
        LET ui == TableInit(t).unique_indexes
        IN  /\ \A c \in Range(fields(t)) \cup {r.column_name : r \in Range(IndexRows(t))} :
                  \A K \in {r.key_name : r \in Range(IndexRows(t))} :
                     (K \in DOMAIN ui /\ c \in Range(ui[K]))
                        <=> (c \in Range(fields(t)) /\ FirstIndexRowIsUnique(t, c, K))
            /\ DOMAIN ui \subseteq {r.key_name : r \in Range(IndexRows(t))} \ {"PRIMARY"}
            /\ \A K \in DOMAIN ui :
                  /\ Range(ui[K]) \subseteq Range(fields(t))
                  /\ \A i, j \in 1..Len(ui[K]) : i # j => ui[K][i] # ui[K][j]
                  /\ \A L \in DOMAIN ui : L # K => Range(ui[K]) \cap Range(ui[L]) = {}
            /\ unique_index_keys(t) = TableInit(t).keys
            /\ \A K \in DOMAIN ui : unique_indexes(t, K) = ui[K]

\* A row was tested and inserted on a table with a column whose first index
\* row is PRIMARY and a later one unique, a column in two unique indexes and
\* a column whose first index row is not unique
C27_Witness ==
    \E i \in 1..Len(log) :
        LET t == log[i].q.table
        IN  /\ \E c \in Range(fields(t)) :
                  /\ fetch_index(t, c) # <<>> /\ fetch_index(t, c)[1].key_name = "PRIMARY"
                  /\ \E r \in Range(IndexRows(t)) :
                        r.column_name = c /\ r.key_name # "PRIMARY" /\ r.non_unique = 0
            /\ \E c \in Range(fields(t)) : \E K \in DOMAIN TableInit(t).unique_indexes :
                  /\ c \in Range(TableInit(t).unique_indexes[K])
                  /\ \E r \in Range(IndexRows(t)) :
                        r.column_name = c /\ r.key_name # K /\ r.non_unique = 0
            /\ \E c \in Range(fields(t)) :
                  /\ fetch_index(t, c) # <<>> /\ fetch_index(t, c)[1].non_unique = 1
                  /\ \E r \in Range(IndexRows(t)) : r.column_name = c /\ r.non_unique = 0

\* C28: every tentative row that new_fake_row hands to test has an entry for
\* every column of every unique index of its table, so test never raises
\* KeyError.
C28_TestFindsEveryIndexColumn ==
    /\ error # "KeyError"
    /\ (nfr.active /\ nfr.attempt < Retries)
          => \A o \in Filled :
                \A K \in DOMAIN TableInit(nfr.table).unique_indexes :
                    Range(TableInit(nfr.table).unique_indexes[K]) \subseteq DOMAIN o.row.val

\* The pairs of distinct columns of unique index K of t that reference the
\* same column of the same table
TwinColumns(t, K) ==
    {p \in Range(unique_indexes(t, K)) \X Range(unique_indexes(t, K)) :
        /\ p[1] # p[2]
        /\ referenced_to(t, p[1]) # <<>>
        /\ referenced_to(t, p[1]) = referenced_to(t, p[2])}

\* C30: two columns of one unique index that reference the same parent
\* column have the same value in every candidate tuple, in the fetched
\* candidates as in the scope of the call under way, and no INSERT carries
\* two different non-NULL values for them.
C30_TwinForeignColumnsAgree ==
    /\ \A t \in DOMAIN db : \A K \in Range(unique_index_keys(t)) :
          \A p \in TwinColumns(t, K) :
             \A r \in fetch_available_foreign_values(t, db, unique_indexes(t, K)) :
                r[p[1]] = r[p[2]]
    /\ nfr.active =>
          \A K \in DOMAIN nfr.scope : \A p \in TwinColumns(nfr.table, K) :
             \A r \in nfr.scope[K] : r[p[1]] = r[p[2]]
    /\ \A i \in 1..Len(log) :
          \A K \in Range(unique_index_keys(log[i].q.table)) :
             \A p \in TwinColumns(log[i].q.table, K) :
                (p[1] \in DOMAIN log[i].val /\ p[2] \in DOMAIN log[i].val)
                   => \/ log[i].val[p[1]] = NULL
                      \/ log[i].val[p[2]] = NULL
                      \/ log[i].val[p[1]] = log[i].val[p[2]]

\* A row with one non-NULL value in both columns was inserted, and the call
\* under way has two candidate tuples to choose from
C30_Witness ==
    /\ nfr.active
    /\ \E K \in DOMAIN nfr.scope :
          /\ TwinColumns(nfr.table, K) # {}
          /\ \E r1, r2 \in nfr.scope[K] : r1 # r2
    /\ \E i \in 1..Len(log) :
          \E K \in Range(unique_index_keys(log[i].q.table)) :
             \E p \in TwinColumns(log[i].q.table, K) :
                /\ log[i].val[p[1]] # NULL
                /\ log[i].val[p[1]] = log[i].val[p[2]]

====
